---- MODULE Spec2Model ----
(***************************************************************************)
(* Reconciliation logic of the Looker Terraform provider:                  *)
(*   - looker_folder_access               (plain grant management)         *)
(*   - looker_folder_permission_override  (Override Workflow)              *)
(*   - looker_group                       (membership diffing)             *)
(* The remote Looker service is the only shared resource.  Every handler   *)
(* is one action; every remote call it issues is appended to last.calls.   *)
(***************************************************************************)
EXTENDS Integers, Sequences, FiniteSets, TLC

\* ---------------------------------------------------------------- bounds
MaxGrantId == 2          \* grant IDs the remote service mints in one run
MaxGroupId == 1          \* group IDs the remote service mints in one run

\* ------------------------------------------------------------ value sets
FolderIDs == {"f1", "f2"}            \* access-control contexts (content_metadata_id)
GroupIDs  == {"g1", "g2"}            \* principals (groups) holding grants
Levels    == {"view", "edit"}        \* stringvalidator.OneOf("view", "edit")
NilStr    == "nil"                   \* a nil *string / StringNull in a response
EmptyStr  == ""                      \* the empty string (ValueString of a null)

VARIABLES
    grants,      \* remote: sequence of access grants, in the order listGrants returns them
    nextId,      \* remote: next grant ID to mint
    fa,          \* tracked state of the looker_folder_access object
    ov,          \* tracked state of the looker_folder_permission_override object
    last,        \* the last grant operation: plan, prior state, calls issued, diagnostics
    rgroups,     \* remote: groups by ID
    nextGid,     \* remote: next group ID to mint
    grp,         \* tracked state of the looker_group object
    glast,       \* the last group operation
    robj,        \* remote: the folder, role, permission set and model set of the run
    tobj,        \* tracked state of the objects of these kinds and of looker_role_groups
    olast,       \* the last operation on one of them
    catalog,     \* remote: the objects of each kind that a search by name goes through
    dlast,       \* the last lookup of a data source
    pend         \* an override Create that has listed the grants and not yet converted

grantVars == <<grants, nextId, fa, ov, last>>
groupVars == <<rgroups, nextGid, grp, glast>>
objVars == <<robj, tobj, olast>>
lookupVars == <<catalog, dlast>>
vars == <<grants, nextId, fa, ov, last, rgroups, nextGid, grp, glast, robj, tobj, olast,
          catalog, dlast, pend>>

\* ==========================================================================
\* Access grants: remote service
\* ==========================================================================

NoGrant == [id |-> 0, cm |-> NilStr, group |-> NilStr, level |-> NilStr]

Grant(id, cm, group, level) == [id |-> id, cm |-> cm, group |-> group, level |-> level]

\* listGrants(contextID): the grants of one context, unfiltered by principal.
AllContentMetadataAccesses(gs, folderID) ==
    SelectSeq(gs, LAMBDA g : g.cm = folderID)

\* createGrant: the remote mints a new grant with a fresh ID.
CreateContentMetadataAccess(gs, id, cm, group, level) ==
    Append(gs, Grant(id, cm, group, level))

\* updateGrant(grantID, level): level change in place, ID and position kept.
UpdateContentMetadataAccess(gs, id, level) ==
    [i \in DOMAIN gs |-> IF gs[i].id = id THEN [gs[i] EXCEPT !.level = level] ELSE gs[i]]

\* deleteGrant(grantID)
DeleteContentMetadataAccess(gs, id) ==
    SelectSeq(gs, LAMBDA g : g.id # id)

GrantExists(gs, id) == \E i \in DOMAIN gs : gs[i].id = id

GrantById(gs, id) ==
    IF GrantExists(gs, id) THEN gs[CHOOSE i \in DOMAIN gs : gs[i].id = id] ELSE NoGrant

\* ==========================================================================
\* Tracked state and the operation record
\* ==========================================================================

Absent == [present |-> FALSE, id |-> 0, folder_id |-> NilStr, group_id |-> NilStr,
           access_level |-> NilStr]

Tracked(id, folderID, groupID, level) ==
    [present |-> TRUE, id |-> id, folder_id |-> folderID, group_id |-> groupID,
     access_level |-> level]

Plan(folderID, groupID, level) ==
    [folder_id |-> folderID, group_id |-> groupID, access_level |-> level]

NoPlan == Plan(NilStr, NilStr, NilStr)

Call(api, arg, ok) == [api |-> api, arg |-> arg, ok |-> ok]

\* `discarded` is, for a Create, the tracked state that the Read right before
\* it discarded because the grant was gone (Absent when there was none).
Op(op, plan, prior, found, calls, err) ==
    [op |-> op, plan |-> plan, prior |-> prior, found |-> found, calls |-> calls,
     err |-> err, discarded |-> Absent]

NoOp == Op("none", NoPlan, Absent, NoGrant, <<>>, FALSE)

\* ==========================================================================
\* Grant Locator
\* ==========================================================================

\* Mutant: the scan runs to the end of the list and keeps the last match.
RECURSIVE ScanGrantsLastMatch(_, _, _)
ScanGrantsLastMatch(results, groupID, i) ==
    IF i > Len(results) THEN NoGrant
    ELSE LET rest == ScanGrantsLastMatch(results, groupID, i + 1)
         IN  IF rest # NoGrant THEN rest
             ELSE IF results[i].group # NilStr /\ results[i].group = groupID THEN results[i]
             ELSE NoGrant

\* The loop of findAccessGrant over the listed grants, from position i on:
\* the first grant with a group, and that group the principal.
RECURSIVE ScanGrants(_, _, _)
ScanGrants(results, groupID, i) ==
    IF i > Len(results) THEN NoGrant
    ELSE IF results[i].group # NilStr /\ results[i].group = groupID THEN results[i]
    ELSE ScanGrants(results, groupID, i + 1)

\* Mutant: the locator scans the grants of every context.
OverrideFindAccessGrantAnyContext(gs, folderID, groupID) ==
    ScanGrants(gs, groupID, 1)

\* folderPermissionOverrideResource.findAccessGrant, after a successful list
OverrideFindAccessGrant(gs, folderID, groupID) ==
    ScanGrants(AllContentMetadataAccesses(gs, folderID), groupID, 1)

\* folderAccessResource.findAccessGrant, after a successful list
FolderAccessFindAccessGrant(gs, folderID, groupID) ==
    ScanGrants(AllContentMetadataAccesses(gs, folderID), groupID, 1)

\* ==========================================================================
\* looker_folder_permission_override
\* ==========================================================================

\* Mutant: Create makes a grant when it finds none (an upsert).
OverrideCreateBodyUpsert(gs, plan, listOk, updOk) ==
    LET grant == IF listOk
                 THEN ScanGrants(AllContentMetadataAccesses(gs, plan.folder_id),
                                 plan.group_id, 1)
                 ELSE NoGrant
        lst   == Call("listGrants", plan.folder_id, listOk)
    IN  IF ~listOk THEN
            [grants |-> gs, state |-> Absent, set |-> FALSE, err |-> TRUE,
             found |-> NoGrant, calls |-> <<lst>>]
        ELSE IF grant = NoGrant THEN
            [grants |-> CreateContentMetadataAccess(gs, nextId, plan.folder_id,
                                                    plan.group_id, plan.access_level),
             state  |-> Tracked(nextId, plan.folder_id, plan.group_id, plan.access_level),
             set |-> TRUE, err |-> FALSE, found |-> NoGrant,
             calls |-> <<lst, Call("createGrant", plan.folder_id, TRUE)>>]
        ELSE
            [grants |-> UpdateContentMetadataAccess(gs, grant.id, plan.access_level),
             state  |-> Tracked(grant.id, plan.folder_id, plan.group_id, plan.access_level),
             set |-> TRUE, err |-> FALSE, found |-> grant,
             calls |-> <<lst, Call("updateGrant", grant.id, TRUE)>>]

\* Create body, shared by Create and by Update (which calls r.Create).
\* Yields [grants, state, set, err, found, calls]: `set` tells whether
\* resp.State.Set ran, `state` is the value it stored.
OverrideCreateBody(gs, plan, listOk, updOk) ==
    LET grant == IF listOk
                 THEN OverrideFindAccessGrant(gs, plan.folder_id, plan.group_id)
                 ELSE NoGrant
        lst   == Call("listGrants", plan.folder_id, listOk)
    IN  IF ~listOk THEN
            [grants |-> gs, state |-> Absent, set |-> FALSE, err |-> TRUE,
             found |-> NoGrant, calls |-> <<lst>>]
        ELSE IF grant = NoGrant THEN
            [grants |-> gs, state |-> Absent, set |-> FALSE, err |-> TRUE,
             found |-> NoGrant, calls |-> <<lst>>]
        ELSE IF ~updOk THEN
            [grants |-> gs, state |-> Absent, set |-> FALSE, err |-> TRUE,
             found |-> grant, calls |-> <<lst, Call("updateGrant", grant.id, FALSE)>>]
        ELSE
            [grants |-> UpdateContentMetadataAccess(gs, grant.id, plan.access_level),
             state  |-> Tracked(grant.id, plan.folder_id, plan.group_id, plan.access_level),
             set |-> TRUE, err |-> FALSE, found |-> grant,
             calls |-> <<lst, Call("updateGrant", grant.id, TRUE)>>]

OverrideCreate(folderID, groupID, level, listOk, updOk) ==
    /\ ~ov.present
    /\ LET plan == Plan(folderID, groupID, level)
           r    == OverrideCreateBody(grants, plan, listOk, updOk)
       IN  /\ grants' = r.grants
           /\ ov' = IF r.set THEN r.state ELSE Absent
           /\ last' = Op("OverrideCreate", plan, ov, r.found, r.calls, r.err)
    /\ UNCHANGED <<nextId, fa>>
    /\ UNCHANGED <<groupVars, objVars, lookupVars, pend>>

\* Mutant: Verify looks only at the presence of the grant, not at its level.
OverrideReadStateIgnoresLevel(state, grant) ==
    IF grant = NoGrant THEN Absent ELSE [state EXCEPT !.id = grant.id]

\* Read (Verify): grant absent, without a level or at another level than the
\* tracked one -> RemoveResource; otherwise the state is kept, its id refreshed.
OverrideReadState(state, grant) ==
    IF grant = NoGrant \/ grant.level = NilStr \/ grant.level # state.access_level
    THEN Absent
    ELSE [state EXCEPT !.id = grant.id]

OverrideRead(listOk) ==
    /\ ov.present
    /\ LET grant == IF listOk
                    THEN OverrideFindAccessGrant(grants, ov.folder_id, ov.group_id)
                    ELSE NoGrant
           lst   == Call("listGrants", ov.folder_id, listOk)
       IN  /\ ov' = IF ~listOk THEN ov ELSE OverrideReadState(ov, grant)
           /\ last' = Op("OverrideRead", NoPlan, ov, grant, <<lst>>, ~listOk)
    /\ UNCHANGED <<grants, nextId, fa>>
    /\ UNCHANGED <<groupVars, objVars, lookupVars, pend>>

\* Update hands r.Create a fresh CreateResponse holding copies of resp.State
\* and resp.Diagnostics: what Create stores or reports lands in the copies,
\* and the UpdateResponse keeps the prior state and no error.
OverrideUpdateResponse(prior, r) ==
    [state |-> prior, err |-> FALSE]

OverrideUpdate(folderID, groupID, level, listOk, updOk) ==
    /\ ov.present
    /\ LET plan == Plan(folderID, groupID, level)
           r    == OverrideCreateBody(grants, plan, listOk, updOk)
           resp == OverrideUpdateResponse(ov, r)
       IN  /\ plan # Plan(ov.folder_id, ov.group_id, ov.access_level)
           /\ grants' = r.grants
           /\ ov' = resp.state
           /\ last' = Op("OverrideUpdate", plan, ov, r.found, r.calls, resp.err)
    /\ UNCHANGED <<nextId, fa>>
    /\ UNCHANGED <<groupVars, objVars, lookupVars, pend>>

\* --- Create in two steps: other clients act between its two remote calls ---

\* `listed` is what listGrants returned, `found` the grant the scan picked.
Pending(plan, listed, found) ==
    [active |-> TRUE, plan |-> plan, listed |-> listed, found |-> found]

NoPending == [active |-> FALSE, plan |-> NoPlan, listed |-> <<>>, found |-> NoGrant]

\* Create up to the scan of findAccessGrant: one listGrants call, then the
\* loop over its results.  Yields [err, listed, found, calls].
OverrideSeekBody(gs, plan, listOk) ==
    LET listed == IF listOk THEN AllContentMetadataAccesses(gs, plan.folder_id) ELSE <<>>
        grant  == ScanGrants(listed, plan.group_id, 1)
    IN  [err |-> ~listOk \/ grant = NoGrant, listed |-> listed, found |-> grant,
         calls |-> <<Call("listGrants", plan.folder_id, listOk)>>]

\* Mutant: Convert stores the plan although the grant it found is gone.
OverrideConvertBodyStoresAnyway(gs, plan, grant, updOk) ==
    IF ~updOk THEN
        [grants |-> gs, state |-> Absent, set |-> FALSE, err |-> TRUE,
         calls |-> <<Call("updateGrant", grant.id, FALSE)>>]
    ELSE
        [grants |-> UpdateContentMetadataAccess(gs, grant.id, plan.access_level),
         state  |-> Tracked(grant.id, plan.folder_id, plan.group_id, plan.access_level),
         set |-> TRUE, err |-> FALSE,
         calls |-> <<Call("updateGrant", grant.id, GrantExists(gs, grant.id))>>]

\* Create from the updateGrant call on: the call is made on the ID of the
\* grant found; the remote rejects it when that grant no longer exists.
\* Yields [grants, state, set, err, calls].
OverrideConvertBody(gs, plan, grant, updOk) ==
    IF ~updOk \/ ~GrantExists(gs, grant.id) THEN
        [grants |-> gs, state |-> Absent, set |-> FALSE, err |-> TRUE,
         calls |-> <<Call("updateGrant", grant.id, FALSE)>>]
    ELSE
        [grants |-> UpdateContentMetadataAccess(gs, grant.id, plan.access_level),
         state  |-> Tracked(grant.id, plan.folder_id, plan.group_id, plan.access_level),
         set |-> TRUE, err |-> FALSE,
         calls |-> <<Call("updateGrant", grant.id, TRUE)>>]

OverrideCreateSeek(folderID, groupID, level, listOk) ==
    /\ ~ov.present
    /\ ~pend.active
    /\ LET plan == Plan(folderID, groupID, level)
           r    == OverrideSeekBody(grants, plan, listOk)
       IN  IF r.err
           THEN /\ last' = Op("OverrideCreate", plan, ov, r.found, r.calls, TRUE)
                /\ pend' = NoPending
           ELSE /\ last' = Op("OverrideCreateSeek", plan, ov, r.found, r.calls, FALSE)
                /\ pend' = Pending(plan, r.listed, r.found)
    /\ UNCHANGED <<grants, nextId, fa, ov>>
    /\ UNCHANGED <<groupVars, objVars, lookupVars>>

OverrideCreateConvert(updOk) ==
    /\ pend.active
    /\ LET r == OverrideConvertBody(grants, pend.plan, pend.found, updOk)
       IN  /\ grants' = r.grants
           /\ ov' = IF r.set THEN r.state ELSE Absent
           /\ last' = Op("OverrideCreate", pend.plan, ov, pend.found,
                         <<Call("listGrants", pend.plan.folder_id, TRUE)>> \o r.calls, r.err)
    /\ pend' = NoPending
    /\ UNCHANGED <<nextId, fa>>
    /\ UNCHANGED <<groupVars, objVars, lookupVars>>

\* Mutant: Delete removes the grant it tracks.
OverrideDeleteBodyReverts(gs, state) ==
    [grants |-> DeleteContentMetadataAccess(gs, state.id), err |-> FALSE,
     calls |-> <<Call("deleteGrant", state.id, TRUE)>>]

\* Delete only logs a warning: no remote call.  Yields [grants, err, calls].
\* The framework drops the tracked state when Delete reports no error.
OverrideDeleteBody(gs, state) ==
    [grants |-> gs, err |-> FALSE, calls |-> <<>>]

OverrideDelete ==
    /\ ov.present
    /\ LET r == OverrideDeleteBody(grants, ov)
       IN  /\ grants' = r.grants
           /\ ov' = IF r.err THEN ov ELSE Absent
           /\ last' = Op("OverrideDelete", NoPlan, ov, NoGrant, r.calls, r.err)
    /\ UNCHANGED <<nextId, fa>>
    /\ UNCHANGED <<groupVars, objVars, lookupVars, pend>>

\* ==========================================================================
\* looker_folder_access
\* ==========================================================================

\* A Read that found no grant for the tracked principal and discarded the state.
VanishedOnRead(op) ==
    /\ op.op = "FolderAccessRead"
    /\ ~op.err
    /\ op.found = NoGrant

\* Mutant: Create stores the plan without the ID the remote assigned.
FolderAccessCreateBodyDropsId(gs, id, plan, ok) ==
    IF ~ok THEN
        [grants |-> gs, state |-> Absent, set |-> FALSE, err |-> TRUE, minted |-> FALSE,
         calls |-> <<Call("createGrant", plan.folder_id, FALSE)>>]
    ELSE
        [grants |-> CreateContentMetadataAccess(gs, id, plan.folder_id, plan.group_id,
                                                plan.access_level),
         state  |-> Tracked(0, plan.folder_id, plan.group_id, plan.access_level),
         set |-> TRUE, err |-> FALSE, minted |-> TRUE,
         calls |-> <<Call("createGrant", plan.folder_id, TRUE)>>]

\* Create: one createGrant, issued without consulting the Grant Locator.
\* Yields [grants, state, set, err, calls, minted].
FolderAccessCreateBody(gs, id, plan, ok) ==
    IF ~ok THEN
        [grants |-> gs, state |-> Absent, set |-> FALSE, err |-> TRUE, minted |-> FALSE,
         calls |-> <<Call("createGrant", plan.folder_id, FALSE)>>]
    ELSE
        [grants |-> CreateContentMetadataAccess(gs, id, plan.folder_id, plan.group_id,
                                                plan.access_level),
         state  |-> Tracked(id, plan.folder_id, plan.group_id, plan.access_level),
         set |-> TRUE, err |-> FALSE, minted |-> TRUE,
         calls |-> <<Call("createGrant", plan.folder_id, TRUE)>>]

FolderAccessCreate(folderID, groupID, level, ok) ==
    /\ ~fa.present
    /\ nextId <= MaxGrantId
    /\ LET plan == Plan(folderID, groupID, level)
           r    == FolderAccessCreateBody(grants, nextId, plan, ok)
       IN  /\ grants' = r.grants
           /\ nextId' = IF r.minted THEN nextId + 1 ELSE nextId
           /\ fa' = IF r.set THEN r.state ELSE Absent
           /\ last' = [Op("FolderAccessCreate", plan, fa,
                          FolderAccessFindAccessGrant(grants, folderID, groupID),
                          r.calls, r.err)
                       EXCEPT !.discarded = IF VanishedOnRead(last) THEN last.prior
                                            ELSE Absent]
    /\ UNCHANGED ov
    /\ UNCHANGED <<groupVars, objVars, lookupVars, pend>>

\* Mutant: a grant found at another level than the tracked one is treated as gone.
FolderAccessReadStateDropsOnDrift(state, grant) ==
    IF grant = NoGrant \/ grant.level # state.access_level THEN Absent
    ELSE [state EXCEPT !.id = grant.id]

\* Read: re-run the locator; absent -> RemoveResource, present -> refresh id and level.
FolderAccessReadState(state, grant) ==
    IF grant = NoGrant THEN Absent
    ELSE [state EXCEPT !.id = grant.id, !.access_level = grant.level]

FolderAccessRead(listOk) ==
    /\ fa.present
    /\ LET grant == IF listOk
                    THEN FolderAccessFindAccessGrant(grants, fa.folder_id, fa.group_id)
                    ELSE NoGrant
           lst   == Call("listGrants", fa.folder_id, listOk)
       IN  /\ fa' = IF ~listOk THEN fa ELSE FolderAccessReadState(fa, grant)
           /\ last' = Op("FolderAccessRead", NoPlan, fa, grant, <<lst>>, ~listOk)
    /\ UNCHANGED <<grants, nextId, ov>>
    /\ UNCHANGED <<groupVars, objVars, lookupVars, pend>>

\* Mutant: Update replaces the grant (deleteGrant, createGrant) under a new ID.
FolderAccessUpdateBodyRecreate(gs, state, plan, updOk) ==
    [grants |-> CreateContentMetadataAccess(DeleteContentMetadataAccess(gs, state.id),
                                            nextId, plan.folder_id, plan.group_id,
                                            plan.access_level),
     state  |-> Tracked(nextId, plan.folder_id, plan.group_id, plan.access_level),
     err |-> FALSE,
     calls |-> <<Call("deleteGrant", state.id, TRUE),
                 Call("createGrant", plan.folder_id, TRUE)>>]

\* Update: one updateGrant on state.ID; the plan's id is the state's id
\* (UseStateForUnknown).  Yields [grants, state, err, calls].
FolderAccessUpdateBody(gs, state, plan, updOk) ==
    LET ok == updOk /\ GrantExists(gs, state.id)
    IN  IF ~ok THEN
            [grants |-> gs, state |-> state, err |-> TRUE,
             calls |-> <<Call("updateGrant", state.id, FALSE)>>]
        ELSE
            [grants |-> UpdateContentMetadataAccess(gs, state.id, plan.access_level),
             state  |-> Tracked(state.id, plan.folder_id, plan.group_id, plan.access_level),
             err |-> FALSE,
             calls |-> <<Call("updateGrant", state.id, TRUE)>>]

FolderAccessUpdate(folderID, groupID, level, updOk) ==
    /\ fa.present
    /\ LET plan == Plan(folderID, groupID, level)
           r    == FolderAccessUpdateBody(grants, fa, plan, updOk)
       IN  /\ plan # Plan(fa.folder_id, fa.group_id, fa.access_level)
           /\ grants' = r.grants
           /\ fa' = r.state
           /\ last' = Op("FolderAccessUpdate", plan, fa, NoGrant, r.calls, r.err)
    /\ UNCHANGED <<nextId, ov>>
    /\ UNCHANGED <<groupVars, objVars, lookupVars, pend>>

\* Delete: one deleteGrant on state.ID; the framework drops the state on success.
FolderAccessDelete(delOk) ==
    /\ fa.present
    /\ LET ok == delOk /\ GrantExists(grants, fa.id)
       IN  /\ grants' = IF ok THEN DeleteContentMetadataAccess(grants, fa.id) ELSE grants
           /\ fa' = IF ok THEN Absent ELSE fa
           /\ last' = Op("FolderAccessDelete", NoPlan, fa, NoGrant,
                         <<Call("deleteGrant", fa.id, ok)>>, ~ok)
    /\ UNCHANGED <<nextId, ov>>
    /\ UNCHANGED <<groupVars, objVars, lookupVars, pend>>

\* ==========================================================================
\* Other clients of the remote service (the Looker UI, inheritance from a
\* parent folder).  They keep at most one grant per principal and context.
\* ==========================================================================

HasGrantFor(gs, folderID, groupID) ==
    \E i \in DOMAIN gs : gs[i].cm = folderID /\ gs[i].group = groupID

ExternalCreateGrant(folderID, groupID, level) ==
    /\ nextId <= MaxGrantId
    /\ ~HasGrantFor(grants, folderID, groupID)
    /\ grants' = CreateContentMetadataAccess(grants, nextId, folderID, groupID, level)
    /\ nextId' = nextId + 1
    /\ last' = NoOp
    /\ UNCHANGED <<fa, ov>>
    /\ UNCHANGED <<groupVars, objVars, lookupVars, pend>>

ExternalDeleteGrant(id) ==
    /\ GrantExists(grants, id)
    /\ grants' = DeleteContentMetadataAccess(grants, id)
    /\ last' = NoOp
    /\ UNCHANGED <<nextId, fa, ov>>
    /\ UNCHANGED <<groupVars, objVars, lookupVars, pend>>

ExternalSetLevel(id, level) ==
    /\ GrantExists(grants, id)
    /\ GrantById(grants, id).level # level
    /\ grants' = UpdateContentMetadataAccess(grants, id, level)
    /\ last' = NoOp
    /\ UNCHANGED <<nextId, fa, ov>>
    /\ UNCHANGED <<groupVars, objVars, lookupVars, pend>>

\* ==========================================================================
\* looker_group: remote service
\* ==========================================================================

UserIDs == {"u1", "u2", "u3"}
Emails  == {"e1", "dup", "none"}
Names   == {"n1", "n2"}

\* searchPrincipalByEmail: the remote directory.  "e1" belongs to one user,
\* "dup" to two, "none" to nobody.
SearchUsers(email) ==
    CASE email = "e1"  -> <<"u1">>
      [] email = "dup" -> <<"u2", "u3">>
      [] OTHER         -> <<>>

Null == [null |-> TRUE, elems |-> {}]          \* types.SetNull
SetVal(S) == [null |-> FALSE, elems |-> S]     \* a known set value

NoGroupState == [present |-> FALSE, id |-> 0, name |-> NilStr, user_ids |-> Null,
                 user_emails |-> Null]

GroupPlan(name, ids, emails) == [name |-> name, user_ids |-> ids, user_emails |-> emails]

NoGroupPlan == GroupPlan(NilStr, Null, Null)

NoDiagnostic == [summary |-> NilStr, detail |-> NilStr, about |-> NilStr]

\* The error diagnostic a group handler adds when it stops at the remote call
\* calls[Len(calls)]: summary, the fixed part of the detail, and the one
\* email, user or group the detail names.
GroupDiagnostics(calls, err) ==
    IF ~err \/ calls = <<>> THEN NoDiagnostic
    ELSE LET c == calls[Len(calls)]
         IN  CASE c.api = "createGroup" ->
                    [summary |-> "API error", detail |-> "Failed to create group",
                     about |-> NilStr]
               [] c.api = "updateGroup" ->
                    [summary |-> "API error", detail |-> "Failed to update group name",
                     about |-> c.arg]
               [] c.api = "searchUsers" ->
                    [summary |-> "User resolution failed",
                     detail |-> IF ~c.ok THEN "API error searching for user with email"
                                ELSE IF Len(SearchUsers(c.arg)) = 0
                                THEN "no user found with email"
                                ELSE "multiple users found with email",
                     about |-> c.arg]
               [] c.api = "addMember" ->
                    [summary |-> "API error", detail |-> "Failed to add user",
                     about |-> c.arg]
               [] c.api = "removeMember" ->
                    [summary |-> "API error", detail |-> "Failed to remove user",
                     about |-> c.arg]
               [] c.api = "listMembers" ->
                    [summary |-> "API error", detail |-> "Failed to get users for group",
                     about |-> c.arg]
               [] c.api = "deleteGroup" ->
                    [summary |-> "API error", detail |-> "Failed to delete group",
                     about |-> c.arg]
               [] OTHER -> NoDiagnostic

\* How a fetch by ID ends: a transport or API failure, the remote's not-found
\* answer for an object that does not exist, or the object.
FetchOutcome(ok, exists) ==
    IF ~ok THEN "error" ELSE IF ~exists THEN "not_found" ELSE "ok"

\* What one call of resolveUserEmailsToIDs was given and returned.
Resolution(emails, ids, err) == [ran |-> TRUE, emails |-> emails, ids |-> ids, err |-> err]

NoResolution == [ran |-> FALSE, emails |-> <<>>, ids |-> <<>>, err |-> FALSE]

GOp(op, plan, calls, err) ==
    [op |-> op, plan |-> plan, calls |-> calls, err |-> err,
     diag |-> GroupDiagnostics(calls, err), resolved |-> NoResolution,
     fetch |-> NilStr]

NoGOp == GOp("none", NoGroupPlan, <<>>, FALSE)

RemoteGroup(name, members) == [exists |-> TRUE, name |-> name, members |-> members]

DeletedGroup == [exists |-> FALSE, name |-> NilStr, members |-> {}]

\* The orders in which a set's elements can come out of ElementsAs or of a
\* Go map iteration.
RECURSIVE Orders(_)
Orders(S) ==
    IF S = {} THEN {<<>>}
    ELSE UNION {{<<x>> \o t : t \in Orders(S \ {x})} : x \in S}

\* ==========================================================================
\* looker_group: Identity Resolver and membership calls
\* ==========================================================================

\* Mutant: an email without exactly one match is skipped and the rest returned.
RECURSIVE resolveUserEmailsToIDsPartial(_, _, _, _, _)
resolveUserEmailsToIDsPartial(emails, i, fail, ids, calls) ==
    IF i > Len(emails) THEN [ids |-> ids, err |-> FALSE, calls |-> calls]
    ELSE LET results == SearchUsers(emails[i])
         IN  IF fail = i THEN
                 [ids |-> <<>>, err |-> TRUE,
                  calls |-> Append(calls, Call("searchUsers", emails[i], FALSE))]
             ELSE resolveUserEmailsToIDsPartial(emails, i + 1, fail,
                      IF Len(results) = 1 THEN Append(ids, results[1]) ELSE ids,
                      Append(calls, Call("searchUsers", emails[i], TRUE)))

\* Mutant: with several matches the resolver takes the first one.
RECURSIVE resolveUserEmailsToIDsFirstMatch(_, _, _, _, _)
resolveUserEmailsToIDsFirstMatch(emails, i, fail, ids, calls) ==
    IF i > Len(emails) THEN [ids |-> ids, err |-> FALSE, calls |-> calls]
    ELSE LET results == SearchUsers(emails[i])
         IN  IF fail = i THEN
                 [ids |-> <<>>, err |-> TRUE,
                  calls |-> Append(calls, Call("searchUsers", emails[i], FALSE))]
             ELSE IF Len(results) = 0 THEN
                 [ids |-> <<>>, err |-> TRUE,
                  calls |-> Append(calls, Call("searchUsers", emails[i], TRUE))]
             ELSE resolveUserEmailsToIDsFirstMatch(emails, i + 1, fail,
                                                   Append(ids, results[1]),
                                                   Append(calls, Call("searchUsers", emails[i], TRUE)))

\* resolveUserEmailsToIDs over the emails from position i on; `fail` is the
\* position of the search call that ends in an API error (0: none).
\* Yields [ids, err, calls].
RECURSIVE resolveUserEmailsToIDs(_, _, _, _, _)
resolveUserEmailsToIDs(emails, i, fail, ids, calls) ==
    IF i > Len(emails) THEN [ids |-> ids, err |-> FALSE, calls |-> calls]
    ELSE LET results == SearchUsers(emails[i])
         IN  IF fail = i THEN
                 [ids |-> <<>>, err |-> TRUE,
                  calls |-> Append(calls, Call("searchUsers", emails[i], FALSE))]
             ELSE IF Len(results) = 0 \/ Len(results) > 1 THEN
                 [ids |-> <<>>, err |-> TRUE,
                  calls |-> Append(calls, Call("searchUsers", emails[i], TRUE))]
             ELSE resolveUserEmailsToIDs(emails, i + 1, fail, Append(ids, results[1]),
                                         Append(calls, Call("searchUsers", emails[i], TRUE)))

\* The membership calls ops[i..], each [api, arg], issued in order until one
\* fails; `fail` is the position of the failing call (0: none).
\* Yields [members, err, calls].
RECURSIVE ApplyMemberCalls(_, _, _, _, _)
ApplyMemberCalls(ops, i, fail, members, calls) ==
    IF i > Len(ops) THEN [members |-> members, err |-> FALSE, calls |-> calls]
    ELSE IF fail = i THEN
        [members |-> members, err |-> TRUE,
         calls |-> Append(calls, Call(ops[i].api, ops[i].arg, FALSE))]
    ELSE ApplyMemberCalls(ops, i + 1, fail,
                          IF ops[i].api = "addMember" THEN members \cup {ops[i].arg}
                          ELSE members \ {ops[i].arg},
                          Append(calls, Call(ops[i].api, ops[i].arg, TRUE)))

MemberCalls(api, users) == [i \in DOMAIN users |-> [api |-> api, arg |-> users[i]]]

Range(s) == {s[i] : i \in DOMAIN s}

\* Mutant: every plan user is added, whether or not the state holds it.
ToAddAll(planUsers, stateUsers) == planUsers

\* Standard diffing logic of Update over the two maps planUsers and stateUsers:
\* the plan users not in the state are added, the state users not in the plan removed.
ToAdd(planUsers, stateUsers) == {u \in planUsers : u \notin stateUsers}

ToRemove(planUsers, stateUsers) == {u \in stateUsers : u \notin planUsers}

\* ==========================================================================
\* looker_group: handlers
\* ==========================================================================

Elems(v) == IF v.null THEN {} ELSE v.elems

GroupTracked(id, plan) ==
    [present |-> TRUE, id |-> id, name |-> plan.name, user_ids |-> plan.user_ids,
     user_emails |-> plan.user_emails]

\* Create: createGroup, resolve the emails, one addMember per entry of
\* finalUserIDs (user_ids followed by the resolved IDs), then State.Set.
\* `ids` and `emails` are user_ids and user_emails in ElementsAs order;
\* `failAt` is the position of the remote call that ends in an API error.
\* Yields [rgroups, minted, set, state, err, calls, res].
GroupCreateBody(rg, gid, plan, ids, emails, failAt) ==
    LET cg == Call("createGroup", plan.name, failAt # 1)
    IN  IF failAt = 1 THEN
            [rgroups |-> rg, minted |-> FALSE, set |-> FALSE, state |-> NoGroupState,
             err |-> TRUE, calls |-> <<cg>>, res |-> NoResolution]
        ELSE
            LET rg1 == Append(rg, RemoteGroup(plan.name, {}))
                res == IF plan.user_emails.null
                       THEN [ids |-> <<>>, err |-> FALSE, calls |-> <<>>]
                       ELSE resolveUserEmailsToIDs(emails, 1, failAt - 1, <<>>, <<>>)
                rec == IF plan.user_emails.null THEN NoResolution
                       ELSE Resolution(emails, res.ids, res.err)
            IN  IF res.err THEN
                    [rgroups |-> rg1, minted |-> TRUE, set |-> FALSE,
                     state |-> NoGroupState, err |-> TRUE, calls |-> <<cg>> \o res.calls,
                     res |-> rec]
                ELSE
                    LET finalUserIDs == ids \o res.ids
                        m == ApplyMemberCalls(MemberCalls("addMember", finalUserIDs), 1,
                                              failAt - 1 - Len(res.calls), {}, <<>>)
                    IN  [rgroups |-> [rg1 EXCEPT ![gid].members = m.members],
                         minted |-> TRUE, set |-> ~m.err,
                         state |-> IF m.err THEN NoGroupState ELSE GroupTracked(gid, plan),
                         err |-> m.err, calls |-> <<cg>> \o res.calls \o m.calls,
                         res |-> rec]

GroupCreate(name, uids, uemails) ==
    /\ ~grp.present
    /\ nextGid <= MaxGroupId
    /\ LET plan == GroupPlan(name, uids, uemails)
       IN  \E ids \in Orders(Elems(uids)), emails \in Orders(Elems(uemails)) :
           \E failAt \in 0..Len(GroupCreateBody(rgroups, nextGid, plan, ids, emails, 0).calls) :
               LET r == GroupCreateBody(rgroups, nextGid, plan, ids, emails, failAt)
               IN  /\ rgroups' = r.rgroups
                   /\ nextGid' = IF r.minted THEN nextGid + 1 ELSE nextGid
                   /\ grp' = IF r.set THEN r.state ELSE NoGroupState
                   /\ glast' = [GOp("GroupCreate", plan, r.calls, r.err)
                                   EXCEPT !.resolved = r.res]
    /\ UNCHANGED <<grantVars, objVars, lookupVars, pend>>

\* Read: any error of the group fetch removes the resource; then the
\* members are listed and stored as user_ids, user_emails is set null.
GroupReadState(state, group) ==
    [state EXCEPT !.name = group.name,
                  !.user_ids = IF group.members = {} THEN Null ELSE SetVal(group.members),
                  !.user_emails = Null]

GroupRead(getOk, listOk) ==
    /\ grp.present
    /\ LET ok1 == getOk /\ rgroups[grp.id].exists
           c1  == Call("getGroup", grp.id, ok1)
           c2  == Call("listMembers", grp.id, listOk)
       IN  /\ grp' = IF ~ok1 THEN NoGroupState
                     ELSE IF ~listOk THEN grp
                     ELSE GroupReadState(grp, rgroups[grp.id])
           /\ glast' = [GOp("GroupRead", NoGroupPlan,
                            IF ok1 THEN <<c1, c2>> ELSE <<c1>>, ok1 /\ ~listOk)
                        EXCEPT !.fetch = FetchOutcome(getOk, rgroups[grp.id].exists)]
    /\ UNCHANGED <<rgroups, nextGid>>
    /\ UNCHANGED <<grantVars, objVars, lookupVars, pend>>

\* The part of Update before the diff: updateGroup when the name changed,
\* then email resolution.  Yields [rgroups, err, calls, planUserIDs, res].
GroupUpdateResolve(rg, state, plan, emails, failAt) ==
    LET renamed == plan.name # state.name
        ug      == Call("updateGroup", state.id, failAt # 1)
    IN  IF renamed /\ failAt = 1 THEN
            [rgroups |-> rg, err |-> TRUE, calls |-> <<ug>>, planUserIDs |-> {},
             res |-> NoResolution]
        ELSE
            LET n   == IF renamed THEN 1 ELSE 0
                rg1 == IF renamed THEN [rg EXCEPT ![state.id].name = plan.name] ELSE rg
                c1  == IF renamed THEN <<ug>> ELSE <<>>
                res == IF plan.user_emails.null
                       THEN [ids |-> <<>>, err |-> FALSE, calls |-> <<>>]
                       ELSE resolveUserEmailsToIDs(emails, 1, failAt - n, <<>>, <<>>)
            IN  [rgroups |-> rg1, err |-> res.err, calls |-> c1 \o res.calls,
                 planUserIDs |-> Elems(plan.user_ids) \cup Range(res.ids),
                 res |-> IF plan.user_emails.null THEN NoResolution
                         ELSE Resolution(emails, res.ids, res.err)]

\* Mutant: the removes are issued before the adds.
GroupUpdateMemberCallsRemovesFirst(addOrder, remOrder) ==
    MemberCalls("removeMember", remOrder) \o MemberCalls("addMember", addOrder)

\* The membership calls of Update: the adds in map order, then the removes.
GroupUpdateMemberCalls(addOrder, remOrder) ==
    MemberCalls("addMember", addOrder) \o MemberCalls("removeMember", remOrder)

\* Update.  Yields [rgroups, state, err, calls, res].
GroupUpdateBody(rg, state, plan, emails, addOrder, remOrder, failAt) ==
    LET pre == GroupUpdateResolve(rg, state, plan, emails, failAt)
    IN  IF pre.err THEN
            [rgroups |-> pre.rgroups, state |-> state, err |-> TRUE, calls |-> pre.calls,
             res |-> pre.res]
        ELSE
            LET m == ApplyMemberCalls(GroupUpdateMemberCalls(addOrder, remOrder), 1,
                                      failAt - Len(pre.calls),
                                      pre.rgroups[state.id].members, <<>>)
            IN  [rgroups |-> [pre.rgroups EXCEPT ![state.id].members = m.members],
                 state |-> IF m.err THEN state ELSE GroupTracked(state.id, plan),
                 err |-> m.err, calls |-> pre.calls \o m.calls, res |-> pre.res]

UpdateCallCount(rg, state, plan, emails) ==
    LET pre == GroupUpdateResolve(rg, state, plan, emails, 0)
    IN  Len(pre.calls)
        + IF pre.err THEN 0
          ELSE Cardinality(ToAdd(pre.planUserIDs, Elems(state.user_ids)))
               + Cardinality(ToRemove(pre.planUserIDs, Elems(state.user_ids)))

GroupUpdate(name, uids, uemails) ==
    /\ grp.present
    /\ LET plan == GroupPlan(name, uids, uemails)
       IN  /\ plan # GroupPlan(grp.name, grp.user_ids, grp.user_emails)
           /\ \E emails \in Orders(Elems(uemails)) :
              \E failAt \in 0..UpdateCallCount(rgroups, grp, plan, emails) :
                 LET pre      == GroupUpdateResolve(rgroups, grp, plan, emails, failAt)
                     stateIDs == Elems(grp.user_ids)
                 IN  \E addOrder \in Orders(ToAdd(pre.planUserIDs, stateIDs)),
                        remOrder \in Orders(ToRemove(pre.planUserIDs, stateIDs)) :
                        LET r == GroupUpdateBody(rgroups, grp, plan, emails,
                                                 addOrder, remOrder, failAt)
                        IN  /\ rgroups' = r.rgroups
                            /\ grp' = r.state
                            /\ glast' = [GOp("GroupUpdate", plan, r.calls, r.err)
                                            EXCEPT !.resolved = r.res]
    /\ UNCHANGED nextGid
    /\ UNCHANGED <<grantVars, objVars, lookupVars, pend>>

\* Delete: deleteGroup; the framework drops the state on success.
GroupDelete(delOk) ==
    /\ grp.present
    /\ LET ok == delOk /\ rgroups[grp.id].exists
       IN  /\ rgroups' = IF ok THEN [rgroups EXCEPT ![grp.id] = DeletedGroup] ELSE rgroups
           /\ grp' = IF ok THEN NoGroupState ELSE grp
           /\ glast' = GOp("GroupDelete", NoGroupPlan,
                           <<Call("deleteGroup", grp.id, ok)>>, ~ok)
    /\ UNCHANGED nextGid
    /\ UNCHANGED <<grantVars, objVars, lookupVars, pend>>

\* ==========================================================================
\* Objects read by ID: looker_folder, looker_role, looker_permission_set,
\* looker_model_set, and the looker_role_groups assignment of a role.
\* The remote holds at most one object of each kind at a time; of the
\* attributes, the name, the folder's parent, access-control context and
\* inheritance flag, and the role's groups are kept.
\* ==========================================================================

ObjectKinds == {"folder", "role", "permission_set", "model_set"}
TrackedKinds == ObjectKinds \cup {"role_groups"}

ObjectID == "1"              \* the ID the remote gives the object of a kind
ContextID == "cm1"           \* the access-control context of the folder

NoObject == [exists |-> FALSE, name |-> NilStr, parent_id |-> NilStr,
             inherits |-> NilStr, groups |-> {}]

RemoteObject(name, parent, inherits) ==
    [exists |-> TRUE, name |-> name, parent_id |-> parent, inherits |-> inherits,
     groups |-> {}]

Untracked == [present |-> FALSE]

\* `prior` and `plan` are, for an Update, the tracked state it started from
\* and the plan it was given.
OOp(op, calls, err, fetch) ==
    [op |-> op, calls |-> calls, err |-> err, fetch |-> fetch, prior |-> Untracked,
     plan |-> Untracked]

NoOOp == OOp("none", <<>>, FALSE, NilStr)

\* ------------------------------------------------------------ looker_folder

TrackedFolder(id, name, parent, cm, inherits) ==
    [present |-> TRUE, id |-> id, name |-> name, parent_id |-> parent,
     content_metadata_id |-> cm, inherits_permissions |-> inherits]

\* The planned value of a computed attribute that the plan modifiers leave
\* undetermined.
Unknown == "unknown"

\* types.String.ValueString(): "" for a null or unknown value.
ValueString(v) == IF v = NilStr \/ v = Unknown THEN EmptyStr ELSE v

\* types.Bool.IsNull(): true for a null value only, not for an unknown one.
IsNull(v) == v = NilStr

\* types.Bool.ValueBool(): false for a null or unknown value.
ValueBool(v) == v = "true"

\* The planned inherits_permissions of a Create, from the configured value
\* (NilStr when left out): optional and computed, and UseStateForUnknown has
\* no state to take a value from.
FolderCreatePlanInherits(configured) ==
    IF configured = NilStr THEN Unknown ELSE configured

\* Create: createFolder, then UpdateContentMetadata(inherits = false) when the
\* planned inherits_permissions is not null and its ValueBool() is false.
\* `inherits` is the planned value: "true", "false" or Unknown; `failAt` is
\* the position of the failing call.  Yields [remote, set, state, err, calls].
FolderCreateBody(name, parent, inherits, failAt) ==
    LET cf == Call("createFolder", name, failAt # 1)
    IN  IF failAt = 1 THEN
            [remote |-> NoObject, set |-> FALSE, state |-> Untracked, err |-> TRUE,
             calls |-> <<cf>>]
        ELSE IF ~IsNull(inherits) /\ ~ValueBool(inherits) THEN
            IF failAt = 2 THEN
                [remote |-> RemoteObject(name, parent, "true"), set |-> FALSE,
                 state |-> Untracked, err |-> TRUE,
                 calls |-> <<cf, Call("setInheritance", ContextID, FALSE)>>]
            ELSE
                [remote |-> RemoteObject(name, parent, "false"), set |-> TRUE,
                 state |-> TrackedFolder(ObjectID, name, parent, ContextID, "false"),
                 err |-> FALSE,
                 calls |-> <<cf, Call("setInheritance", ContextID, TRUE)>>]
        ELSE
            [remote |-> RemoteObject(name, parent, "true"), set |-> TRUE,
             state |-> TrackedFolder(ObjectID, name, parent, ContextID, "true"),
             err |-> FALSE, calls |-> <<cf>>]

FolderCreate(name, parent, inherits, failAt) ==
    /\ ~tobj["folder"].present
    /\ ~robj["folder"].exists
    /\ LET planned == FolderCreatePlanInherits(inherits)
           r       == FolderCreateBody(name, parent, planned, failAt)
       IN  /\ failAt <= Len(FolderCreateBody(name, parent, planned, 0).calls)
           /\ robj' = [robj EXCEPT !["folder"] = r.remote]
           /\ tobj' = [tobj EXCEPT !["folder"] = IF r.set THEN r.state ELSE Untracked]
           /\ olast' = [OOp("FolderCreate", r.calls, r.err, NilStr)
                           EXCEPT !.plan = [inherits_permissions |-> inherits]]
    /\ UNCHANGED <<grantVars, groupVars, lookupVars, pend>>

\* Read: any error of the folder fetch removes the resource; an error of the
\* content-metadata fetch is reported; otherwise the state is refreshed.
FolderReadState(state, folder) ==
    [state EXCEPT !.name = folder.name, !.parent_id = folder.parent_id,
                  !.content_metadata_id = ContextID,
                  !.inherits_permissions = folder.inherits]

FolderRead(getOk, cmOk) ==
    /\ tobj["folder"].present
    /\ LET folder == robj["folder"]
           ok1 == getOk /\ folder.exists
           c1  == Call("getFolder", tobj["folder"].id, ok1)
           c2  == Call("getContentMetadata", ContextID, cmOk)
       IN  /\ tobj' = [tobj EXCEPT !["folder"] =
                         IF ~ok1 THEN Untracked
                         ELSE IF ~cmOk THEN @
                         ELSE FolderReadState(@, folder)]
           /\ olast' = OOp("FolderRead", IF ok1 THEN <<c1, c2>> ELSE <<c1>>,
                           ok1 /\ ~cmOk,
                           IF ok1 /\ ~cmOk THEN "error"
                           ELSE FetchOutcome(getOk, folder.exists))
    /\ UNCHANGED robj
    /\ UNCHANGED <<grantVars, groupVars, lookupVars, pend>>

\* Delete: deleteFolder; the framework drops the state on success.
FolderDelete(delOk) ==
    /\ tobj["folder"].present
    /\ LET ok == delOk /\ robj["folder"].exists
       IN  /\ robj' = IF ok THEN [robj EXCEPT !["folder"] = NoObject] ELSE robj
           /\ tobj' = IF ok THEN [tobj EXCEPT !["folder"] = Untracked] ELSE tobj
           /\ olast' = OOp("FolderDelete", <<Call("deleteFolder", tobj["folder"].id, ok)>>,
                           ~ok, NilStr)
    /\ UNCHANGED <<grantVars, groupVars, lookupVars, pend>>

\* The plan of a folder Update: id and, when not configured, inherits_permissions
\* are taken from the state (UseStateForUnknown); content_metadata_id is
\* computed and has no plan modifier.
FolderPlan(state, name, parent, inherits) ==
    [id |-> state.id, name |-> name, parent_id |-> parent,
     content_metadata_id |-> Unknown,
     inherits_permissions |-> IF inherits = NilStr THEN state.inherits_permissions
                              ELSE inherits]

\* Mutant: Update deletes the folder and creates it anew.
FolderUpdateBodyRecreates(folder, state, plan, failAt) ==
    [remote |-> RemoteObject(plan.name, plan.parent_id, "true"),
     state  |-> TrackedFolder(plan.id, plan.name, plan.parent_id, ContextID, "true"),
     err    |-> FALSE,
     calls  |-> <<Call("deleteFolder", plan.id, TRUE), Call("createFolder", plan.name, TRUE)>>]

\* Update: updateFolder on the planned id when name or parent changed, then
\* UpdateContentMetadata on the planned content_metadata_id when the inherits
\* flag changed, then State.Set(plan).  The remote rejects a call on a folder
\* or context it does not have.  Yields [remote, state, err, calls].
FolderUpdateBody(folder, state, plan, failAt) ==
    LET moved  == plan.name # state.name \/ plan.parent_id # state.parent_id
        ok1    == failAt # 1 /\ folder.exists /\ ValueString(plan.id) = ObjectID
        c1     == IF moved THEN <<Call("updateFolder", ValueString(plan.id), ok1)>> ELSE <<>>
        f1     == IF moved /\ ok1
                  THEN [folder EXCEPT !.name = plan.name, !.parent_id = plan.parent_id]
                  ELSE folder
        flip   == plan.inherits_permissions # state.inherits_permissions
        target == ValueString(plan.content_metadata_id)
        ok2    == failAt # Len(c1) + 1 /\ folder.exists /\ target = ContextID
        c2     == IF flip THEN <<Call("setInheritance", target, ok2)>> ELSE <<>>
        f2     == IF flip /\ ok2 THEN [f1 EXCEPT !.inherits = plan.inherits_permissions]
                  ELSE f1
    IN  IF moved /\ ~ok1 THEN
            [remote |-> folder, state |-> state, err |-> TRUE, calls |-> c1]
        ELSE IF flip /\ ~ok2 THEN
            [remote |-> f1, state |-> state, err |-> TRUE, calls |-> c1 \o c2]
        ELSE
            [remote |-> f2,
             state  |-> TrackedFolder(plan.id, plan.name, plan.parent_id,
                                      plan.content_metadata_id, plan.inherits_permissions),
             err |-> FALSE, calls |-> c1 \o c2]

FolderUpdate(name, parent, inherits, failAt) ==
    /\ tobj["folder"].present
    /\ LET state == tobj["folder"]
           plan  == FolderPlan(state, name, parent, inherits)
           r     == FolderUpdateBody(robj["folder"], state, plan, failAt)
       IN  /\ <<plan.name, plan.parent_id, plan.inherits_permissions>>
                 # <<state.name, state.parent_id, state.inherits_permissions>>
           /\ failAt <= Len(FolderUpdateBody(robj["folder"], state, plan, 0).calls)
           /\ robj' = [robj EXCEPT !["folder"] = r.remote]
           /\ tobj' = [tobj EXCEPT !["folder"] = r.state]
           /\ olast' = [OOp("FolderUpdate", r.calls, r.err, NilStr)
                           EXCEPT !.prior = state, !.plan = plan]
    /\ UNCHANGED <<grantVars, groupVars, lookupVars, pend>>

\* ------------------------- looker_role, looker_permission_set, looker_model_set

TrackedObject(id, name) == [present |-> TRUE, id |-> id, name |-> name]

\* Create of one of the three kinds: one create call, then State.Set.
ObjectCreate(kind, op, api, name, ok) ==
    /\ ~tobj[kind].present
    /\ ~robj[kind].exists
    /\ robj' = IF ok THEN [robj EXCEPT ![kind] = RemoteObject(name, NilStr, NilStr)] ELSE robj
    /\ tobj' = IF ok THEN [tobj EXCEPT ![kind] = TrackedObject(ObjectID, name)] ELSE tobj
    /\ olast' = OOp(op, <<Call(api, name, ok)>>, ~ok, NilStr)
    /\ UNCHANGED <<grantVars, groupVars, lookupVars, pend>>

\* Read of one of the three kinds: any error of the fetch removes the
\* resource and is not reported; otherwise the state is refreshed.
ObjectReadState(state, fetched, object) ==
    IF ~fetched THEN Untracked ELSE [state EXCEPT !.name = object.name]

ObjectRead(kind, op, api, getOk) ==
    /\ tobj[kind].present
    /\ LET ok == getOk /\ robj[kind].exists
       IN  /\ tobj' = [tobj EXCEPT ![kind] = ObjectReadState(@, ok, robj[kind])]
           /\ olast' = OOp(op, <<Call(api, tobj[kind].id, ok)>>, FALSE,
                           FetchOutcome(getOk, robj[kind].exists))
    /\ UNCHANGED robj
    /\ UNCHANGED <<grantVars, groupVars, lookupVars, pend>>

\* Delete of one of the three kinds.
ObjectDelete(kind, op, api, delOk) ==
    /\ tobj[kind].present
    /\ LET ok == delOk /\ robj[kind].exists
       IN  /\ robj' = IF ok THEN [robj EXCEPT ![kind] = NoObject] ELSE robj
           /\ tobj' = IF ok THEN [tobj EXCEPT ![kind] = Untracked] ELSE tobj
           /\ olast' = OOp(op, <<Call(api, tobj[kind].id, ok)>>, ~ok, NilStr)
    /\ UNCHANGED <<grantVars, groupVars, lookupVars, pend>>

\* The remote calls of an Update of one of the three kinds: one update call
\* on the tracked ID.
ObjectUpdateCalls(api, id, name, ok) == <<Call(api, id, ok)>>

\* Update of one of the three kinds, then State.Set(plan) with the ID the
\* remote returned.
ObjectUpdate(kind, op, api, name, updOk) ==
    /\ tobj[kind].present
    /\ name # tobj[kind].name
    /\ LET ok == updOk /\ robj[kind].exists
       IN  /\ robj' = IF ok THEN [robj EXCEPT ![kind].name = name] ELSE robj
           /\ tobj' = IF ok THEN [tobj EXCEPT ![kind] = TrackedObject(ObjectID, name)]
                      ELSE tobj
           /\ olast' = [OOp(op, ObjectUpdateCalls(api, tobj[kind].id, name, ok), ~ok, NilStr)
                           EXCEPT !.prior = tobj[kind], !.plan = [name |-> name]]
    /\ UNCHANGED <<grantVars, groupVars, lookupVars, pend>>

RoleCreate(name, ok) == ObjectCreate("role", "RoleCreate", "createRole", name, ok)
RoleRead(getOk) == ObjectRead("role", "RoleRead", "getRole", getOk)
RoleUpdate(name, ok) == ObjectUpdate("role", "RoleUpdate", "updateRole", name, ok)
RoleDelete(delOk) == ObjectDelete("role", "RoleDelete", "deleteRole", delOk)

PermissionSetCreate(name, ok) ==
    ObjectCreate("permission_set", "PermissionSetCreate", "createPermissionSet", name, ok)
PermissionSetRead(getOk) ==
    ObjectRead("permission_set", "PermissionSetRead", "getPermissionSet", getOk)
PermissionSetUpdate(name, ok) ==
    ObjectUpdate("permission_set", "PermissionSetUpdate", "updatePermissionSet", name, ok)
PermissionSetDelete(delOk) ==
    ObjectDelete("permission_set", "PermissionSetDelete", "deletePermissionSet", delOk)

ModelSetCreate(name, ok) ==
    ObjectCreate("model_set", "ModelSetCreate", "createModelSet", name, ok)
ModelSetRead(getOk) == ObjectRead("model_set", "ModelSetRead", "getModelSet", getOk)
ModelSetUpdate(name, ok) ==
    ObjectUpdate("model_set", "ModelSetUpdate", "updateModelSet", name, ok)
ModelSetDelete(delOk) ==
    ObjectDelete("model_set", "ModelSetDelete", "deleteModelSet", delOk)

\* -------------------------------------------------------- looker_role_groups

TrackedRoleGroups(roleID, groupIDs) ==
    [present |-> TRUE, id |-> roleID, role_id |-> roleID, group_ids |-> groupIDs]

\* Mutant: the groups are added to those the role already has.
setRoleGroupsAdds(role, roleID, groupIDs, ok) ==
    LET done == ok /\ role.exists /\ roleID = ObjectID
    IN  [remote |-> IF done THEN [role EXCEPT !.groups = @ \cup groupIDs] ELSE role,
         err |-> ~done, calls |-> <<Call("setRoleGroups", roleID, done)>>]

\* setRoleGroups: one SetRoleGroups call with the whole list; the remote
\* rejects it for a role that does not exist.  Yields [remote, err, calls].
setRoleGroups(role, roleID, groupIDs, ok) ==
    LET done == ok /\ role.exists /\ roleID = ObjectID
    IN  [remote |-> IF done THEN [role EXCEPT !.groups = groupIDs] ELSE role,
         err |-> ~done, calls |-> <<Call("setRoleGroups", roleID, done)>>]

\* Create and Update: setRoleGroups, then the plan is stored with id = role_id.
RoleGroupsCreate(roleID, groupIDs, ok) ==
    /\ ~tobj["role_groups"].present
    /\ LET r == setRoleGroups(robj["role"], roleID, groupIDs, ok)
       IN  /\ robj' = [robj EXCEPT !["role"] = r.remote]
           /\ tobj' = IF r.err THEN tobj
                      ELSE [tobj EXCEPT !["role_groups"] =
                              TrackedRoleGroups(roleID, SetVal(groupIDs))]
           /\ olast' = [OOp("RoleGroupsCreate", r.calls, r.err, NilStr)
                           EXCEPT !.plan = TrackedRoleGroups(roleID, SetVal(groupIDs))]
    /\ UNCHANGED <<grantVars, groupVars, lookupVars, pend>>

RoleGroupsUpdate(roleID, groupIDs, ok) ==
    /\ tobj["role_groups"].present
    /\ <<roleID, SetVal(groupIDs)>>
          # <<tobj["role_groups"].role_id, tobj["role_groups"].group_ids>>
    /\ LET r == setRoleGroups(robj["role"], roleID, groupIDs, ok)
       IN  /\ robj' = [robj EXCEPT !["role"] = r.remote]
           /\ tobj' = IF r.err THEN tobj
                      ELSE [tobj EXCEPT !["role_groups"] =
                              TrackedRoleGroups(roleID, SetVal(groupIDs))]
           /\ olast' = [OOp("RoleGroupsUpdate", r.calls, r.err, NilStr)
                           EXCEPT !.prior = tobj["role_groups"],
                                  !.plan = TrackedRoleGroups(roleID, SetVal(groupIDs))]
    /\ UNCHANGED <<grantVars, groupVars, lookupVars, pend>>

\* Read: the groups of the role are listed; an error of the listing, the
\* remote's not-found included, is reported and the state kept.
RoleGroupsReadState(state, groups) ==
    [state EXCEPT !.id = state.role_id,
                  !.group_ids = IF groups = {} THEN Null ELSE SetVal(groups)]

RoleGroupsRead(getOk) ==
    /\ tobj["role_groups"].present
    /\ LET state  == tobj["role_groups"]
           exists == robj["role"].exists /\ state.role_id = ObjectID
           ok     == getOk /\ exists
       IN  /\ tobj' = IF ~ok THEN tobj
                      ELSE [tobj EXCEPT !["role_groups"] =
                              RoleGroupsReadState(@, robj["role"].groups)]
           /\ olast' = OOp("RoleGroupsRead", <<Call("getRoleGroups", state.role_id, ok)>>,
                           ~ok, FetchOutcome(getOk, exists))
    /\ UNCHANGED robj
    /\ UNCHANGED <<grantVars, groupVars, lookupVars, pend>>

\* Delete: the role's groups are set to the empty list.
RoleGroupsDelete(ok) ==
    /\ tobj["role_groups"].present
    /\ LET r == setRoleGroups(robj["role"], tobj["role_groups"].role_id, {}, ok)
       IN  /\ robj' = [robj EXCEPT !["role"] = r.remote]
           /\ tobj' = IF r.err THEN tobj ELSE [tobj EXCEPT !["role_groups"] = Untracked]
           /\ olast' = [OOp("RoleGroupsDelete", r.calls, r.err, NilStr)
                           EXCEPT !.prior = tobj["role_groups"]]
    /\ UNCHANGED <<grantVars, groupVars, lookupVars, pend>>

\* ------------------------------------------- other clients of the remote

\* Another client deletes the object of a kind.
ExternalDeleteObject(kind) ==
    /\ robj[kind].exists
    /\ robj' = [robj EXCEPT ![kind] = NoObject]
    /\ olast' = NoOOp
    /\ UNCHANGED tobj
    /\ UNCHANGED <<grantVars, groupVars, lookupVars, pend>>

\* Another client deletes the tracked group.
ExternalDeleteGroup ==
    /\ grp.present
    /\ rgroups[grp.id].exists
    /\ rgroups' = [rgroups EXCEPT ![grp.id] = DeletedGroup]
    /\ glast' = NoGOp
    /\ UNCHANGED <<nextGid, grp>>
    /\ UNCHANGED <<grantVars, objVars, lookupVars, pend>>

\* ==========================================================================
\* Data sources: looker_role, looker_group, looker_permissionset,
\* looker_model_set and looker_folder look an object up by ID or by name.
\* The remote keeps the objects of a kind in the order a search returns them.
\* ==========================================================================

MaxCatalog == 2                      \* objects of one kind on the remote
LookupKinds == {"role", "group", "permission_set", "model_set", "folder"}
LookupNames == {"n1", "n2"}
LookupParents == {"p1", "p2"}

Entry(id, name, parent) == [id |-> id, name |-> name, parent_id |-> parent]

NoEntry == Entry(NilStr, NilStr, NilStr)

LookupConfig(id, name, parent) == [id |-> id, name |-> name, parent_id |-> parent]

\* The record of a lookup: calls issued, the summary of the diagnostic
\* (NilStr when none), whether State.Set ran and with which object, and the
\* results of the search when one was made.
DOp(kind, cfg, r) ==
    [kind |-> kind, cfg |-> cfg, calls |-> r.calls, diag |-> r.diag, set |-> r.set,
     state |-> r.state, searched |-> r.searched, results |-> r.results]

LookupFailed(calls, diag, searched, results) ==
    [calls |-> calls, diag |-> diag, set |-> FALSE, state |-> NoEntry,
     searched |-> searched, results |-> results]

LookupDone(calls, object, searched, results) ==
    [calls |-> calls, diag |-> NilStr, set |-> TRUE, state |-> object,
     searched |-> searched, results |-> results]

NoDOp == DOp("none", LookupConfig(NilStr, NilStr, NilStr), LookupFailed(<<>>, NilStr, FALSE, <<>>))

\* get<Kind>(id): the objects with that ID (none: the call fails)
GetByID(cat, id) == SelectSeq(cat, LAMBDA e : e.id = id)

\* search<Kind>s(name)
SearchByName(cat, name) == SelectSeq(cat, LAMBDA e : e.name = name)

\* searchFolders(name, parentID)
SearchFolders(cat, name, parent) ==
    SelectSeq(cat, LAMBDA e : e.name = name /\ e.parent_id = parent)

\* The Read of the role, group, permission set and model set data sources up
\* to the mapping of the response: by ID when id is set and not empty, else by
\* name when name is set and not empty (the first result is taken), else
\* "Invalid input".
DataSourceRead(cat, getApi, searchApi, id, name, ok) ==
    IF id # NilStr /\ id # EmptyStr THEN
        LET got == GetByID(cat, id)
            c   == Call(getApi, id, ok /\ Len(got) > 0)
        IN  IF c.ok THEN LookupDone(<<c>>, got[1], FALSE, <<>>)
            ELSE LookupFailed(<<c>>, "API error", FALSE, <<>>)
    ELSE IF name # NilStr /\ name # EmptyStr THEN
        LET results == SearchByName(cat, name)
            c       == Call(searchApi, name, ok)
        IN  IF ~ok THEN LookupFailed(<<c>>, "API error", TRUE, <<>>)
            ELSE IF Len(results) = 0 THEN LookupFailed(<<c>>, "Not found", TRUE, results)
            ELSE LookupDone(<<c>>, results[1], TRUE, results)
    ELSE LookupFailed(<<>>, "Invalid input", FALSE, <<>>)

\* groupDataSource.Read: the lookup, then the members of the group are listed.
GroupDataSourceReadBody(cat, id, name, ok, usersOk) ==
    LET r == DataSourceRead(cat, "getGroup", "searchGroups", id, name, ok)
        c == Call("listGroupMembers", r.state.id, usersOk)
    IN  IF ~r.set THEN r
        ELSE IF ~usersOk THEN LookupFailed(r.calls \o <<c>>, "API error", r.searched, r.results)
        ELSE [r EXCEPT !.calls = @ \o <<c>>]

\* folderDataSource.Read: by ID when id is set and not empty, else by name
\* within a parent when both are set; several results are "Multiple found".
FolderDataSourceReadBody(cat, id, name, parent, ok) ==
    IF id # NilStr /\ id # EmptyStr THEN
        LET got == GetByID(cat, id)
            c   == Call("getFolder", id, ok /\ Len(got) > 0)
        IN  IF c.ok THEN LookupDone(<<c>>, got[1], FALSE, <<>>)
            ELSE LookupFailed(<<c>>, "API error", FALSE, <<>>)
    ELSE IF name # NilStr /\ parent # NilStr THEN
        LET results == SearchFolders(cat, name, parent)
            c       == Call("searchFolders", <<name, parent>>, ok)
        IN  IF ~ok THEN LookupFailed(<<c>>, "API error", TRUE, <<>>)
            ELSE IF Len(results) = 0 THEN LookupFailed(<<c>>, "Not found", TRUE, results)
            ELSE IF Len(results) > 1 THEN LookupFailed(<<c>>, "Multiple found", TRUE, results)
            ELSE LookupDone(<<c>>, results[1], TRUE, results)
    ELSE LookupFailed(<<>>, "Invalid input", FALSE, <<>>)

\* One data source is looked at in a run: the remote holds objects of one kind.
OnlyKind(kind) == \A k \in LookupKinds \ {kind} : catalog[k] = <<>>

RoleDataSourceRead(id, name, ok) ==
    /\ OnlyKind("role")
    /\ dlast' = DOp("role", LookupConfig(id, name, NilStr),
                    DataSourceRead(catalog["role"], "getRole", "searchRoles", id, name, ok))
    /\ UNCHANGED <<catalog, pend>>
    /\ UNCHANGED <<grantVars, groupVars, objVars>>

GroupDataSourceRead(id, name, ok, usersOk) ==
    /\ OnlyKind("group")
    /\ dlast' = DOp("group", LookupConfig(id, name, NilStr),
                    GroupDataSourceReadBody(catalog["group"], id, name, ok, usersOk))
    /\ UNCHANGED <<catalog, pend>>
    /\ UNCHANGED <<grantVars, groupVars, objVars>>

PermissionSetDataSourceRead(id, name, ok) ==
    /\ OnlyKind("permission_set")
    /\ dlast' = DOp("permission_set", LookupConfig(id, name, NilStr),
                    DataSourceRead(catalog["permission_set"], "getPermissionSet",
                                   "searchPermissionSets", id, name, ok))
    /\ UNCHANGED <<catalog, pend>>
    /\ UNCHANGED <<grantVars, groupVars, objVars>>

ModelSetDataSourceRead(id, name, ok) ==
    /\ OnlyKind("model_set")
    /\ dlast' = DOp("model_set", LookupConfig(id, name, NilStr),
                    DataSourceRead(catalog["model_set"], "getModelSet", "searchModelSets",
                                   id, name, ok))
    /\ UNCHANGED <<catalog, pend>>
    /\ UNCHANGED <<grantVars, groupVars, objVars>>

FolderDataSourceRead(id, name, parent, ok) ==
    /\ OnlyKind("folder")
    /\ dlast' = DOp("folder", LookupConfig(id, name, parent),
                    FolderDataSourceReadBody(catalog["folder"], id, name, parent, ok))
    /\ UNCHANGED <<catalog, pend>>
    /\ UNCHANGED <<grantVars, groupVars, objVars>>

\* Another client creates an object; names are not unique on the remote.
ExternalCreateObject(kind, name, parent) ==
    /\ OnlyKind(kind)
    /\ Len(catalog[kind]) < MaxCatalog
    /\ catalog' = [catalog EXCEPT
                     ![kind] = Append(@, Entry(ToString(Len(@) + 1), name, parent))]
    /\ dlast' = NoDOp
    /\ UNCHANGED pend
    /\ UNCHANGED <<grantVars, groupVars, objVars>>

LookupInit ==
    /\ catalog = [k \in LookupKinds |-> <<>>]
    /\ dlast = NoDOp

\* ==========================================================================
\* Specification of the grant objects
\* ==========================================================================

ObjInit ==
    /\ robj = [k \in ObjectKinds |-> NoObject]
    /\ tobj = [k \in TrackedKinds |-> Untracked]
    /\ olast = NoOOp

GroupInit ==
    /\ rgroups = <<>>
    /\ nextGid = 1
    /\ grp = NoGroupState
    /\ glast = NoGOp

Init ==
    /\ grants = <<>>
    /\ nextId = 1
    /\ fa = Absent
    /\ ov = Absent
    /\ last = NoOp
    /\ GroupInit
    /\ ObjInit
    /\ LookupInit
    /\ pend = NoPending

ExternalNext ==
    \/ \E f \in FolderIDs, g \in GroupIDs \cup {NilStr}, l \in Levels :
          ExternalCreateGrant(f, g, l)
    \/ \E i \in 1..MaxGrantId : ExternalDeleteGrant(i)
    \/ \E i \in 1..MaxGrantId, l \in Levels : ExternalSetLevel(i, l)

OverrideNext ==
    \/ \E f \in FolderIDs, g \in GroupIDs, l \in Levels, a \in BOOLEAN, b \in BOOLEAN :
          OverrideCreate(f, g, l, a, b)
    \/ \E a \in BOOLEAN : OverrideRead(a)
    \/ \E f \in FolderIDs, g \in GroupIDs, l \in Levels, a \in BOOLEAN, b \in BOOLEAN :
          OverrideUpdate(f, g, l, a, b)
    \/ OverrideDelete

FolderAccessNext ==
    \/ \E f \in FolderIDs, g \in GroupIDs, l \in Levels, a \in BOOLEAN :
          FolderAccessCreate(f, g, l, a)
    \/ \E a \in BOOLEAN : FolderAccessRead(a)
    \/ \E f \in FolderIDs, g \in GroupIDs, l \in Levels, a \in BOOLEAN :
          FolderAccessUpdate(f, g, l, a)
    \/ \E a \in BOOLEAN : FolderAccessDelete(a)

\* The override object and the other clients of the remote service.
Next == OverrideNext \/ ExternalNext

Spec == Init /\ [][Next]_vars

\* The grant-management object and the other clients of the remote service.
NextAccess == FolderAccessNext \/ ExternalNext

SpecAccess == Init /\ [][NextAccess]_vars

\* The group object.  A configuration names the group, lists members by ID
\* (user_ids) and by email (user_emails); either list may be left out (null).
SetValues(S) == {Null} \cup {SetVal(T) : T \in SUBSET S}

ConfigNames == {"n1"}
ConfigUserIDs == SetValues({"u1", "u2"})
ConfigUserEmails == {Null, SetVal({"e1"}), SetVal({"none"}), SetVal({"dup"}), SetVal({"e1", "none"})}

NextGroup ==
    \/ \E n \in ConfigNames, u \in ConfigUserIDs, e \in ConfigUserEmails : GroupCreate(n, u, e)
    \/ \E a \in BOOLEAN, b \in BOOLEAN : GroupRead(a, b)
    \/ \E n \in ConfigNames, u \in ConfigUserIDs, e \in ConfigUserEmails : GroupUpdate(n, u, e)
    \/ \E a \in BOOLEAN : GroupDelete(a)

SpecGroup == Init /\ [][NextGroup]_vars

\* ==========================================================================
\* Properties
\* ==========================================================================

MutatingApis == {"createGrant", "updateGrant", "deleteGrant"}

Mutating(calls) == SelectSeq(calls, LAMBDA c : c.api \in MutatingApis)

CallsTo(calls, api) == SelectSeq(calls, LAMBDA c : c.api = api)

OverrideOps == {"OverrideCreate", "OverrideRead", "OverrideUpdate", "OverrideDelete"}

\* The first grant of context folderID, in list order, whose principal is groupID.
FirstGrantFor(gs, folderID, groupID) ==
    LET hits == {i \in DOMAIN gs : gs[i].cm = folderID /\ gs[i].group = groupID}
    IN  IF hits = {} THEN NoGrant
        ELSE gs[CHOOSE i \in hits : \A j \in hits : i <= j]

ListSucceeded(op) == Len(op.calls) >= 1 /\ op.calls[1].api = "listGrants" /\ op.calls[1].ok

\* C1: an override Create on a context that holds no grant for the principal
\* ends in failure, issues no mutating call, leaves the remote grants as they
\* were and records no tracked state; no override operation ever issues
\* createGrant.
C1_SeekAbsentFails ==
    [][ /\ (last'.op = "OverrideCreate"
            /\ ~HasGrantFor(grants, last'.plan.folder_id, last'.plan.group_id))
           => /\ last'.err
              /\ Mutating(last'.calls) = <<>>
              /\ grants' = grants
              /\ ~ov'.present
        /\ last'.op \in OverrideOps => CallsTo(last'.calls, "createGrant") = <<>>
      ]_vars

\* C1 witness: an override Create has failed on a context that holds grants,
\* none of them for the principal, after a successful listing.
C1_Witness ==
    /\ last.op = "OverrideCreate"
    /\ ListSucceeded(last)
    /\ last.err
    /\ ~HasGrantFor(grants, last.plan.folder_id, last.plan.group_id)
    /\ AllContentMetadataAccesses(grants, last.plan.folder_id) # <<>>

\* C2: an override Create whose listing succeeds on a context holding a grant G
\* for the principal issues exactly one mutating call, updateGrant on G; when
\* the Create succeeds G has the planned level, every other grant and G's ID,
\* context and principal are as before, and the tracked ID is G's ID.
C2_ConvertInPlace ==
    [][ (/\ last'.op = "OverrideCreate"
         /\ ListSucceeded(last')
         /\ HasGrantFor(grants, last'.plan.folder_id, last'.plan.group_id))
        => LET G == FirstGrantFor(grants, last'.plan.folder_id, last'.plan.group_id)
               m == Mutating(last'.calls)
           IN  /\ Len(m) = 1
               /\ m[1].api = "updateGrant"
               /\ m[1].arg = G.id
               /\ last'.err = ~m[1].ok
               /\ ~last'.err =>
                     /\ grants' = [i \in DOMAIN grants |->
                                     IF grants[i].id = G.id
                                     THEN [G EXCEPT !.level = last'.plan.access_level]
                                     ELSE grants[i]]
                     /\ ov'.present
                     /\ ov'.id = G.id
                     /\ ov'.access_level = last'.plan.access_level
      ]_vars

\* C2 witness: an override Create has converted a grant from one level to the other.
C2_Witness ==
    /\ last.op = "OverrideCreate"
    /\ ~last.err
    /\ ov.present
    /\ last.found.level # last.plan.access_level
    /\ GrantById(grants, ov.id).level = last.plan.access_level
    /\ Len(grants) > 1

\* C3: the Delete of a tracked override issues no remote call at all and
\* leaves every remote grant (ID, level) exactly as it was.
C3_DeleteDoesNotRevert ==
    [][ last'.op = "OverrideDelete"
        => /\ last'.calls = <<>>
           /\ grants' = grants
           /\ ~last'.err
      ]_vars

\* C3 witness: an override has been deleted and the converted grant is still
\* there at the overridden level.
C3_Witness ==
    /\ last.op = "OverrideDelete"
    /\ ~ov.present
    /\ GrantExists(grants, last.prior.id)
    /\ GrantById(grants, last.prior.id).level = last.prior.access_level

\* C4: an override Read whose listing succeeds discards the tracked state
\* exactly when the context holds no grant for the tracked principal or that
\* grant's level is not the tracked level; a kept state keeps its level; the
\* Read never issues a mutating call and never changes a remote grant.
C4_VerifySurfacesDrift ==
    [][ last'.op = "OverrideRead"
        => LET G == FirstGrantFor(grants, ov.folder_id, ov.group_id)
           IN  /\ Mutating(last'.calls) = <<>>
               /\ grants' = grants
               /\ ListSucceeded(last')
                    => (~ov'.present <=> (G = NoGrant \/ G.level # ov.access_level))
               /\ ov'.present
                    => /\ ov'.access_level = ov.access_level
                       /\ ov'.folder_id = ov.folder_id
                       /\ ov'.group_id = ov.group_id
      ]_vars

\* C4 witness: a Read has discarded the tracked state although the grant is
\* still there, because its level was changed by another client.
C4_Witness ==
    /\ last.op = "OverrideRead"
    /\ ~last.err
    /\ ~ov.present
    /\ last.found # NoGrant
    /\ last.found.level # last.prior.access_level

\* C5: an override Update in which the listing fails, no grant is found for
\* the principal or updateGrant fails reports a failure; an Update that
\* reports none has left the principal's grant at the planned level.
C5_UpdateSurfacesErrors ==
    last.op = "OverrideUpdate"
    => /\ ((\E i \in DOMAIN last.calls : ~last.calls[i].ok) \/ last.found = NoGrant)
             => last.err
       /\ ~last.err
             => LET G == FirstGrantFor(grants, last.plan.folder_id, last.plan.group_id)
                IN  G # NoGrant /\ G.level = last.plan.access_level

\* C6: after an override Update whose remote calls all succeeded, the tracked
\* access_level is the planned level and is the level of the remote grant.
C6_UpdateReturnsPlannedState ==
    (/\ last.op = "OverrideUpdate"
     /\ ~last.err
     /\ last.found # NoGrant
     /\ \A i \in DOMAIN last.calls : last.calls[i].ok)
    => /\ ov.present
       /\ ov.access_level = last.plan.access_level
       /\ ov.access_level = GrantById(grants, last.found.id).level

\* C7: a grant Create for a principal that already holds a grant at the
\* desired level in the context issues neither createGrant nor updateGrant
\* and tracks the existing grant.
C7_ReconcileIdempotent ==
    (/\ last.op = "FolderAccessCreate"
     /\ last.found # NoGrant
     /\ last.found.level = last.plan.access_level)
    => /\ CallsTo(last.calls, "createGrant") = <<>>
       /\ CallsTo(last.calls, "updateGrant") = <<>>
       /\ fa.present => fa.id = last.found.id

\* C8: every context holds at most one grant per principal (group).
C8_AtMostOneGrantPerPrincipal ==
    \A i, j \in DOMAIN grants :
        (i # j /\ grants[i].cm = grants[j].cm /\ grants[i].group # NilStr)
        => grants[i].group # grants[j].group

GrantIds(gs) == {gs[i].id : i \in DOMAIN gs}

\* C9: a grant Update issues exactly one remote call, updateGrant on the
\* tracked grant ID; the remote keeps the same grant IDs, the tracked ID is
\* unchanged, and after a successful Update that grant has the planned level.
C9_UpdateInPlace ==
    [][ last'.op = "FolderAccessUpdate"
        => /\ Len(last'.calls) = 1
           /\ last'.calls[1].api = "updateGrant"
           /\ last'.calls[1].arg = fa.id
           /\ fa'.present
           /\ fa'.id = fa.id
           /\ GrantIds(grants') = GrantIds(grants)
           /\ Len(grants') = Len(grants)
           /\ ~last'.err => GrantById(grants', fa.id).level = last'.plan.access_level
      ]_vars

\* C9 witness: an Update has changed the level of the tracked grant.
C9_Witness ==
    /\ last.op = "FolderAccessUpdate"
    /\ ~last.err
    /\ fa.id = last.prior.id
    /\ fa.access_level # last.prior.access_level
    /\ GrantById(grants, fa.id).level = fa.access_level

\* The desired membership of a plan: user_ids and the principals its emails
\* resolve to (an email resolves when the search returns one principal).
Desired(plan) ==
    Elems(plan.user_ids)
    \cup {SearchUsers(e)[1] : e \in {x \in Elems(plan.user_emails) : Len(SearchUsers(x)) = 1}}

Args(calls) == [i \in DOMAIN calls |-> calls[i].arg]

NoRepeats(s) == \A i, j \in DOMAIN s : i # j => s[i] # s[j]

\* C10: a group Update issues addMember only for principals of desired minus
\* observed and removeMember only for principals of observed minus desired
\* (observed: the tracked user_ids), at most one call per principal; an Update
\* that reports no failure has issued one for each of them; with desired equal
\* to observed it issues neither.
C10_MembershipDiff ==
    [][ glast'.op = "GroupUpdate"
        => LET D    == Desired(glast'.plan)
               O    == Elems(grp.user_ids)
               adds == Args(CallsTo(glast'.calls, "addMember"))
               rems == Args(CallsTo(glast'.calls, "removeMember"))
           IN  /\ NoRepeats(adds)
               /\ NoRepeats(rems)
               /\ Range(adds) \subseteq D \ O
               /\ Range(rems) \subseteq O \ D
               /\ ~glast'.err => (Range(adds) = D \ O /\ Range(rems) = O \ D)
               /\ D = O => (adds = <<>> /\ rems = <<>>)
      ]_vars

\* C10 witness: an Update has completed that added one principal and removed another.
C10_Witness ==
    /\ glast.op = "GroupUpdate"
    /\ ~glast.err
    /\ CallsTo(glast.calls, "addMember") # <<>>
    /\ CallsTo(glast.calls, "removeMember") # <<>>

\* C11: with no other client changing the group, after every group Update
\* that reports no failure the remote membership of the group is the desired
\* set of that Update (user_ids united with the IDs its emails resolve to).
C11_DiffYieldsDesired ==
    (glast.op = "GroupUpdate" /\ ~glast.err /\ grp.present)
    => rgroups[grp.id].members = Desired(glast.plan)

\* C12: within one group Update every addMember call comes before every
\* removeMember call; when a removeMember call has been issued, an addMember
\* call has been issued for every principal of desired minus observed.
C12_AddsBeforeRemoves ==
    [][ glast'.op = "GroupUpdate"
        => LET calls == glast'.calls
               adds  == Args(CallsTo(calls, "addMember"))
           IN  /\ \A i, j \in DOMAIN calls :
                     (calls[i].api = "addMember" /\ calls[j].api = "removeMember") => i < j
               /\ CallsTo(calls, "removeMember") # <<>>
                     => Range(adds) = Desired(glast'.plan) \ Elems(grp.user_ids)
      ]_vars

\* C12 witness: an Update has failed at a removeMember call after its
\* addMember calls had been issued.
C12_Witness ==
    /\ glast.op = "GroupUpdate"
    /\ glast.err
    /\ CallsTo(glast.calls, "addMember") # <<>>
    /\ ~glast.calls[Len(glast.calls)].ok
    /\ glast.calls[Len(glast.calls)].api = "removeMember"

\* The membership calls of a call log that succeeded, as [api, arg] pairs.
Succeeded(calls) ==
    {[api |-> calls[i].api, arg |-> calls[i].arg] :
        i \in {j \in DOMAIN calls :
                 calls[j].ok /\ calls[j].api \in {"addMember", "removeMember"}}}

\* What an Update of `state` to `plan` can return: for every iteration order
\* and every failing call, the tracked state, the diagnostic and the membership
\* calls that succeeded.
UpdateOutcomes(rg, state, plan) ==
    UNION {
      UNION {
        LET pre == GroupUpdateResolve(rg, state, plan, emails, failAt)
        IN  { LET r == GroupUpdateBody(rg, state, plan, emails, addOrder, remOrder, failAt)
              IN  [state |-> r.state, err |-> r.err,
                   diag |-> GroupDiagnostics(r.calls, r.err),
                   succeeded |-> Succeeded(r.calls)] :
              addOrder \in Orders(ToAdd(pre.planUserIDs, Elems(state.user_ids))),
              remOrder \in Orders(ToRemove(pre.planUserIDs, Elems(state.user_ids))) } :
        failAt \in 0..UpdateCallCount(rg, state, plan, emails) } :
      emails \in Orders(Elems(plan.user_emails)) }

\* What a Create of `plan` can return, likewise.
CreateOutcomes(rg, gid, plan) ==
    UNION {
      { LET r == GroupCreateBody(rg, gid, plan, ids, emails, failAt)
        IN  [state |-> IF r.set THEN r.state ELSE NoGroupState, err |-> r.err,
             diag |-> GroupDiagnostics(r.calls, r.err),
             succeeded |-> Succeeded(r.calls)] :
        failAt \in 0..Len(GroupCreateBody(rg, gid, plan, ids, emails, 0).calls) } :
      ids \in Orders(Elems(plan.user_ids)), emails \in Orders(Elems(plan.user_emails)) }

FailedAtMemberCall(op) ==
    /\ op.err
    /\ op.calls # <<>>
    /\ op.calls[Len(op.calls)].api \in {"addMember", "removeMember"}
    /\ Succeeded(op.calls) # {}

\* C13: when a group Update or Create fails at a membership call after
\* earlier membership calls of the same operation succeeded, what it returns
\* (tracked state and diagnostic) does not record the plan as applied and
\* determines the membership calls that succeeded: no other run of the same
\* operation returns the same result after a different set of successes.
C13_PartialFailureReported ==
    [][ /\ (glast'.op = "GroupUpdate" /\ FailedAtMemberCall(glast'))
           => /\ grp' # GroupTracked(grp.id, glast'.plan)
              /\ \A o \in UpdateOutcomes(rgroups, grp, glast'.plan) :
                    (o.err /\ o.state = grp' /\ o.diag = glast'.diag)
                    => o.succeeded = Succeeded(glast'.calls)
        /\ (glast'.op = "GroupCreate" /\ FailedAtMemberCall(glast'))
           => /\ ~grp'.present
              /\ \A o \in CreateOutcomes(rgroups, nextGid, glast'.plan) :
                    (o.err /\ o.state = grp' /\ o.diag = glast'.diag)
                    => o.succeeded = Succeeded(glast'.calls)
      ]_vars

SearchCalls(op) == CallsTo(op.calls, "searchUsers")

\* C14: a resolution of one email succeeds exactly when the search call
\* succeeds and returns one principal, and then returns that principal's ID;
\* with zero or several matches it fails and returns no ID; two consecutive
\* resolutions of the same email, the remote directory unchanged, that both
\* succeed return the same ID.
C14_ResolveNeverGuesses ==
    [][ (glast'.resolved.ran /\ Len(glast'.resolved.emails) = 1)
        => LET res     == glast'.resolved
               email   == res.emails[1]
               results == SearchUsers(email)
               search  == SearchCalls(glast')
           IN  /\ Len(search) = 1
               /\ search[1].arg = email
               /\ ~res.err <=> (search[1].ok /\ Len(results) = 1)
               /\ ~res.err => res.ids = <<results[1]>>
               /\ res.err => res.ids = <<>>
               /\ (Len(results) = 0 \/ Len(results) > 1) => res.err
               /\ (glast.resolved.ran /\ glast.resolved.emails = res.emails
                   /\ ~glast.resolved.err /\ ~res.err)
                  => glast.resolved.ids = res.ids
      ]_vars

\* C14 witness: an operation has failed because its email matches two principals.
C14_Witness ==
    /\ glast.resolved.ran
    /\ glast.resolved.emails = <<"dup">>
    /\ glast.resolved.err
    /\ glast.calls[Len(glast.calls)].ok

MemberCallsOf(op) ==
    SelectSeq(op.calls, LAMBDA c : c.api \in {"addMember", "removeMember"})

\* An email resolves when its search call succeeds and returns one principal.
Resolves(call) == call.ok /\ Len(SearchUsers(call.arg)) = 1

\* C15: a resolution of a list of emails searches them in order and stops at
\* the first email that does not resolve; it returns either one ID per email,
\* in order, or a failure and no ID at all.  A group Update whose resolution
\* fails issues no addMember and no removeMember call and keeps the tracked
\* state as it was.
C15_BatchAllOrNothing ==
    [][ glast'.resolved.ran
        => LET res    == glast'.resolved
               search == SearchCalls(glast')
               n      == Len(search)
           IN  /\ n <= Len(res.emails)
               /\ \A i \in 1..n : search[i].arg = res.emails[i]
               /\ \A i \in 1..(n - 1) : Resolves(search[i])
               /\ ~res.err
                    => /\ n = Len(res.emails)
                       /\ Len(res.ids) = Len(res.emails)
                       /\ \A i \in 1..n : Resolves(search[i])
                                          /\ res.ids[i] = SearchUsers(res.emails[i])[1]
               /\ res.err
                    => /\ res.ids = <<>>
                       /\ n >= 1
                       /\ ~Resolves(search[n])
                       /\ glast'.err
                       /\ MemberCallsOf(glast') = <<>>
                       /\ glast'.op = "GroupUpdate"
                            => grp' = grp /\ rgroups'[grp.id].members = rgroups[grp.id].members
      ]_vars

\* C15 witness: an Update has resolved its first email, failed on the second
\* and returned with the tracked state it was given.
C15_Witness ==
    /\ glast.op = "GroupUpdate"
    /\ glast.resolved.ran
    /\ glast.resolved.err
    /\ Len(glast.resolved.emails) = 2
    /\ Len(SearchCalls(glast)) = 2
    /\ Resolves(SearchCalls(glast)[1])
    /\ grp.present
    /\ GroupPlan(grp.name, grp.user_ids, grp.user_emails) # glast.plan

\* The operations that run a Grant Locator, with the context and principal
\* they hand it.
LocatorOps == {"FolderAccessRead", "OverrideRead", "OverrideCreate", "OverrideUpdate"}

LocatorContext(op) ==
    IF op.op \in {"FolderAccessRead", "OverrideRead"} THEN op.prior.folder_id
    ELSE op.plan.folder_id

LocatorPrincipal(op) ==
    IF op.op \in {"FolderAccessRead", "OverrideRead"} THEN op.prior.group_id
    ELSE op.plan.group_id

\* C16: an operation that runs the Grant Locator for (context, principal)
\* issues exactly one listGrants call, on that context, as its first call; a
\* Read issues no other call and changes no grant.  After a successful
\* listing the located grant is the first grant of the context's list whose
\* group is the principal, or absence when the list holds none; a located
\* grant is never one without a group.
C16_LocatorFirstMatch ==
    [][ last'.op \in LocatorOps
        => LET f == LocatorContext(last')
               g == LocatorPrincipal(last')
           IN  /\ Len(CallsTo(last'.calls, "listGrants")) = 1
               /\ last'.calls[1].api = "listGrants"
               /\ last'.calls[1].arg = f
               /\ last'.op \in {"FolderAccessRead", "OverrideRead"}
                    => (Len(last'.calls) = 1 /\ grants' = grants)
               /\ ListSucceeded(last')
                    => /\ last'.found = FirstGrantFor(grants, f, g)
                       /\ last'.found = NoGrant <=> ~HasGrantFor(grants, f, g)
                       /\ last'.found # NoGrant
                            => /\ last'.found.cm = f
                               /\ last'.found.group = g
                               /\ last'.found.group # NilStr
               /\ ~ListSucceeded(last') => last'.found = NoGrant
      ]_vars

\* C16 witness: a locator has run on a context that lists two grants for the
\* principal and has returned the first of the two.
C16_Witness ==
    /\ last.op \in LocatorOps
    /\ ListSucceeded(last)
    /\ last.found # NoGrant
    /\ \E i, j \in DOMAIN grants :
          /\ i < j
          /\ grants[i] = last.found
          /\ grants[j].cm = last.found.cm
          /\ grants[j].group = last.found.group

\* The two objects that locate grants, and the other clients of the remote service.
NextLocator ==
    \/ \E f \in FolderIDs, g \in GroupIDs, l \in Levels, a \in BOOLEAN :
          FolderAccessCreate(f, g, l, a)
    \/ \E a \in BOOLEAN : FolderAccessRead(a)
    \/ \E f \in FolderIDs, g \in GroupIDs, l \in Levels, a \in BOOLEAN, b \in BOOLEAN :
          OverrideCreate(f, g, l, a, b)
    \/ \E a \in BOOLEAN : OverrideRead(a)
    \/ \E f \in FolderIDs, g \in GroupIDs \cup {NilStr}, l \in Levels :
          ExternalCreateGrant(f, g, l)
    \/ \E i \in 1..MaxGrantId : ExternalDeleteGrant(i)

SpecLocator == Init /\ [][NextLocator]_vars

\* ==========================================================================
\* Specification of the Reads: every kind of managed object, one object
\* under reconciliation at a time (the objects share no state, and a role
\* groups assignment goes with its role).
\* ==========================================================================

Families == {"folder", "role", "permission_set", "model_set", "group", "grant"}

\* The operations on the object of a kind (for a role: and on its groups).
OpsOf(kind) ==
    CASE kind = "folder" -> {"FolderCreate", "FolderRead", "FolderUpdate", "FolderDelete"}
      [] kind = "role" -> {"RoleCreate", "RoleRead", "RoleUpdate", "RoleDelete",
                           "RoleGroupsCreate", "RoleGroupsRead", "RoleGroupsUpdate",
                           "RoleGroupsDelete"}
      [] kind = "permission_set" -> {"PermissionSetCreate", "PermissionSetRead",
                                     "PermissionSetUpdate", "PermissionSetDelete"}
      [] kind = "model_set" -> {"ModelSetCreate", "ModelSetRead", "ModelSetUpdate",
                                "ModelSetDelete"}

\* Nothing of the family is tracked or on the remote, and no operation on it
\* is the last one recorded.
Idle(family) ==
    CASE family = "group" -> ~grp.present /\ nextGid = 1 /\ glast = NoGOp
      [] family = "grant" -> ~fa.present /\ ~ov.present /\ nextId = 1 /\ last = NoOp
      [] family = "role"  -> /\ ~tobj["role"].present
                             /\ ~tobj["role_groups"].present
                             /\ ~robj["role"].exists
                             /\ olast.op \notin OpsOf("role")
      [] OTHER            -> /\ ~tobj[family].present
                             /\ ~robj[family].exists
                             /\ olast.op \notin OpsOf(family)

Only(family) == \A other \in Families \ {family} : Idle(other)

RoleGroupIDs == {"g1", "g2"}
RoleIDs == {ObjectID, "2"}           \* the role of the run and a role that is not there
ObjectNames == {"n1", "n2"}          \* names an Update may plan

NextObjects ==
    \/ Only("folder") /\ \E p \in {"p1"}, i \in {NilStr, "true", "false"}, k \in 0..2 :
                            FolderCreate("n1", p, i, k)
    \/ Only("folder") /\ \E a \in BOOLEAN, b \in BOOLEAN : FolderRead(a, b)
    \/ Only("folder") /\ \E n \in ObjectNames, p \in {"p1", "p2"},
                            i \in {NilStr, "true", "false"}, k \in 0..2 :
                            FolderUpdate(n, p, i, k)
    \/ Only("folder") /\ \E a \in BOOLEAN : FolderDelete(a)
    \/ Only("role") /\ \E a \in BOOLEAN : RoleCreate("n1", a)
    \/ Only("role") /\ \E a \in BOOLEAN : RoleRead(a)
    \/ Only("role") /\ \E n \in ObjectNames, a \in BOOLEAN : RoleUpdate(n, a)
    \/ Only("role") /\ \E a \in BOOLEAN : RoleDelete(a)
    \/ Only("role") /\ \E r \in RoleIDs, G \in SUBSET RoleGroupIDs, a \in BOOLEAN :
                          RoleGroupsCreate(r, G, a)
    \/ Only("role") /\ \E a \in BOOLEAN : RoleGroupsRead(a)
    \/ Only("role") /\ \E r \in RoleIDs, G \in SUBSET RoleGroupIDs, a \in BOOLEAN :
                          RoleGroupsUpdate(r, G, a)
    \/ Only("role") /\ \E a \in BOOLEAN : RoleGroupsDelete(a)
    \/ Only("permission_set") /\ \E a \in BOOLEAN : PermissionSetCreate("n1", a)
    \/ Only("permission_set") /\ \E a \in BOOLEAN : PermissionSetRead(a)
    \/ Only("permission_set") /\ \E n \in ObjectNames, a \in BOOLEAN :
                                    PermissionSetUpdate(n, a)
    \/ Only("permission_set") /\ \E a \in BOOLEAN : PermissionSetDelete(a)
    \/ Only("model_set") /\ \E a \in BOOLEAN : ModelSetCreate("n1", a)
    \/ Only("model_set") /\ \E a \in BOOLEAN : ModelSetRead(a)
    \/ Only("model_set") /\ \E n \in ObjectNames, a \in BOOLEAN : ModelSetUpdate(n, a)
    \/ Only("model_set") /\ \E a \in BOOLEAN : ModelSetDelete(a)
    \/ \E k \in ObjectKinds : Only(k) /\ ExternalDeleteObject(k)
    \/ Only("group") /\ \E u \in {Null, SetVal({"u1"})} : GroupCreate("n1", u, Null)
    \/ Only("group") /\ \E a \in BOOLEAN, b \in BOOLEAN : GroupRead(a, b)
    \/ Only("group") /\ ExternalDeleteGroup
    \/ Only("grant") /\ \E l \in Levels, a \in BOOLEAN : FolderAccessCreate("f1", "g1", l, a)
    \/ Only("grant") /\ \E a \in BOOLEAN : FolderAccessRead(a)
    \/ Only("grant") /\ \E i \in 1..MaxGrantId : ExternalDeleteGrant(i)

SpecObjects == Init /\ [][NextObjects]_vars

\* C17: a Read whose fetch of the remote object ends in a transport or API
\* failure, not in the remote's not-found answer, reports a failure and
\* keeps the tracked state; for groups, folders, roles, permission sets,
\* model sets, role groups assignments and plain grants.
C17_OnlyNotFoundVanishes ==
    [][ /\ (glast'.op = "GroupRead" /\ glast'.fetch = "error")
           => (glast'.err /\ grp' = grp)
        /\ (olast'.op \in {"FolderRead", "RoleRead", "PermissionSetRead",
                           "ModelSetRead", "RoleGroupsRead"}
            /\ olast'.fetch = "error")
           => (olast'.err /\ tobj' = tobj)
        /\ (last'.op = "FolderAccessRead" /\ ~ListSucceeded(last'))
           => (last'.err /\ fa' = fa)
      ]_vars

\* The tracked object a Read of `kind` finds gone from the remote.
Vanished(kind) == tobj[kind].present /\ olast'.fetch = "not_found"

\* C18: a Read of a tracked object whose remote object no longer exists (the
\* fetch gets the remote's not-found answer; for a plain grant the listing
\* holds no grant for the principal; for a role groups assignment the role
\* is gone) discards the tracked state and reports no failure.
C18_VanishedOnRead ==
    [][ /\ (glast'.op = "GroupRead" /\ glast'.fetch = "not_found")
           => (~glast'.err /\ ~grp'.present)
        /\ (olast'.op = "FolderRead" /\ Vanished("folder"))
           => (~olast'.err /\ ~tobj'["folder"].present)
        /\ (olast'.op = "RoleRead" /\ Vanished("role"))
           => (~olast'.err /\ ~tobj'["role"].present)
        /\ (olast'.op = "PermissionSetRead" /\ Vanished("permission_set"))
           => (~olast'.err /\ ~tobj'["permission_set"].present)
        /\ (olast'.op = "ModelSetRead" /\ Vanished("model_set"))
           => (~olast'.err /\ ~tobj'["model_set"].present)
        /\ (olast'.op = "RoleGroupsRead" /\ Vanished("role_groups"))
           => (~olast'.err /\ ~tobj'["role_groups"].present)
        /\ (last'.op = "FolderAccessRead" /\ ListSucceeded(last') /\ last'.found = NoGrant)
           => (~last'.err /\ ~fa'.present)
      ]_vars

\* C19: a Read of a tracked plain grant issues one listGrants call on the
\* tracked context and nothing else, and changes no grant.  After a
\* successful listing: with no grant for the tracked principal the tracked
\* state is discarded; otherwise it is kept, with the context and principal
\* it had and the ID and level of the grant found.  After a failed listing
\* the state is kept and a failure reported.
C19_ReadDetectsDrift ==
    [][ last'.op = "FolderAccessRead"
        => LET G == FirstGrantFor(grants, fa.folder_id, fa.group_id)
           IN  /\ Len(last'.calls) = 1
               /\ last'.calls[1].api = "listGrants"
               /\ last'.calls[1].arg = fa.folder_id
               /\ Mutating(last'.calls) = <<>>
               /\ grants' = grants
               /\ (ListSucceeded(last') /\ G = NoGrant) => (~fa'.present /\ ~last'.err)
               /\ (ListSucceeded(last') /\ G # NoGrant)
                    => (fa' = Tracked(G.id, fa.folder_id, fa.group_id, G.level)
                        /\ ~last'.err)
               /\ ~ListSucceeded(last') => (fa' = fa /\ last'.err)
      ]_vars

\* C19 witness: a Read has found the tracked grant at a level another client
\* gave it, and kept the state with that level.
C19_Witness ==
    /\ last.op = "FolderAccessRead"
    /\ ~last.err
    /\ fa.present
    /\ fa.id = last.prior.id
    /\ fa.access_level # last.prior.access_level
    /\ GrantById(grants, fa.id).level = fa.access_level

\* C20: when a Read has discarded the tracked state of a plain grant because
\* the grant was gone, and the next operation is a Create with the spec that
\* was tracked, then, the Create reporting no failure, the context holds a
\* grant for the principal at the desired level under an ID it did not hold
\* before, and that ID is the tracked one.
C20_RecoveryAfterVanished ==
    [][ (/\ VanishedOnRead(last)
         /\ last'.op = "FolderAccessCreate"
         /\ last'.plan = Plan(last.prior.folder_id, last.prior.group_id,
                              last.prior.access_level)
         /\ ~last'.err)
        => /\ fa'.present
           /\ fa'.id \notin GrantIds(grants)
           /\ fa'.id # last.prior.id
           /\ GrantById(grants', fa'.id)
                 = Grant(fa'.id, last'.plan.folder_id, last'.plan.group_id,
                         last'.plan.access_level)
           /\ Plan(fa'.folder_id, fa'.group_id, fa'.access_level) = last'.plan
           /\ \A i \in DOMAIN grants : grants'[i] = grants[i]
      ]_vars

\* C20 witness: the grant has been recreated, under a new ID, by the Create
\* that followed the Read that found it gone.
C20_Witness ==
    /\ last.op = "FolderAccessCreate"
    /\ ~last.err
    /\ last.discarded.present
    /\ last.plan = Plan(last.discarded.folder_id, last.discarded.group_id,
                        last.discarded.access_level)
    /\ fa.present
    /\ fa.id # last.discarded.id
    /\ ~GrantExists(grants, last.discarded.id)
    /\ GrantById(grants, fa.id).level = last.plan.access_level

\* ==========================================================================
\* Specification of the data sources.  A configuration may leave an attribute
\* out (NilStr) or set it to the empty string.
\* ==========================================================================

ConfigLookupIDs == {NilStr, EmptyStr, "1", "2"}
ConfigLookupNames == {NilStr, EmptyStr} \cup LookupNames
ConfigLookupParents == {NilStr} \cup LookupParents

NextLookup ==
    \/ \E i \in ConfigLookupIDs, n \in ConfigLookupNames, a \in BOOLEAN :
          RoleDataSourceRead(i, n, a)
    \/ \E i \in ConfigLookupIDs, n \in ConfigLookupNames, a \in BOOLEAN, b \in BOOLEAN :
          GroupDataSourceRead(i, n, a, b)
    \/ \E i \in ConfigLookupIDs, n \in ConfigLookupNames, a \in BOOLEAN :
          PermissionSetDataSourceRead(i, n, a)
    \/ \E i \in ConfigLookupIDs, n \in ConfigLookupNames, a \in BOOLEAN :
          ModelSetDataSourceRead(i, n, a)
    \/ \E i \in ConfigLookupIDs, n \in ConfigLookupNames, p \in ConfigLookupParents,
          a \in BOOLEAN :
          FolderDataSourceRead(i, n, p, a)
    \/ \E k \in LookupKinds \ {"folder"}, n \in LookupNames :
          ExternalCreateObject(k, n, NilStr)
    \/ \E n \in LookupNames, p \in LookupParents : ExternalCreateObject("folder", n, p)

SpecLookup == Init /\ [][NextLookup]_vars

\* C21: a lookup by name whose search yields more than one object reports an
\* error and stores no object, whatever the kind looked up.
C21_AmbiguityIsHardFailure ==
    (dlast.searched /\ Len(dlast.results) > 1) => (dlast.diag # NilStr /\ ~dlast.set)

\* An attribute of a lookup is missing when the configuration leaves it out,
\* and supplied when it is set to a value other than the empty string.
Missing(v) == v = NilStr

Supplied(v) == v # NilStr /\ v # EmptyStr

Rejected(op) == op.diag = "Invalid input" /\ op.calls = <<>> /\ ~op.set

\* C22: a lookup with neither an ID nor a name (for folders: neither an ID nor
\* both a name and a parent ID) is rejected as invalid input before any remote
\* call; a lookup with both an ID and a name is rejected in the same way.
C22_InvalidSpecOnLookups ==
    dlast.kind # "none" =>
        /\ (dlast.kind # "folder" /\ Missing(dlast.cfg.id) /\ Missing(dlast.cfg.name))
              => Rejected(dlast)
        /\ (/\ dlast.kind = "folder"
            /\ Missing(dlast.cfg.id)
            /\ (Missing(dlast.cfg.name) \/ Missing(dlast.cfg.parent_id)))
              => Rejected(dlast)
        /\ (Supplied(dlast.cfg.id) /\ Supplied(dlast.cfg.name)) => Rejected(dlast)

\* ==========================================================================
\* Specification of the Updates of every kind of object: the objects of
\* SpecObjects, the Update and Delete of the group, and the Updates of the
\* grant-management object and of the override.
\* ==========================================================================

NextConverge ==
    \/ NextObjects
    \/ Only("group") /\ \E n \in ObjectNames, u \in {Null, SetVal({"u1"})},
                           e \in {Null, SetVal({"e1"})} : GroupUpdate(n, u, e)
    \/ Only("group") /\ \E a \in BOOLEAN : GroupDelete(a)
    \/ Only("grant") /\ \E f \in FolderIDs, l \in Levels, a \in BOOLEAN :
                           FolderAccessUpdate(f, "g1", l, a)
    \/ Only("grant") /\ \E l \in Levels : ExternalCreateGrant("f1", "g1", l)
    \/ Only("grant") /\ \E l \in Levels : OverrideCreate("f1", "g1", l, TRUE, TRUE)
    \/ Only("grant") /\ \E f \in FolderIDs, l \in Levels, a \in BOOLEAN, b \in BOOLEAN :
                           OverrideUpdate(f, "g1", l, a, b)

SpecConverge == Init /\ [][NextConverge]_vars

CreateOrDeleteApis ==
    {"createGroup", "deleteGroup", "createFolder", "deleteFolder", "createRole",
     "deleteRole", "createPermissionSet", "deletePermissionSet", "createModelSet",
     "deleteModelSet", "createGrant", "deleteGrant"}

ObjectUpdateOps ==
    {"FolderUpdate", "RoleUpdate", "PermissionSetUpdate", "ModelSetUpdate",
     "RoleGroupsUpdate"}

Recreates(calls) == \E i \in DOMAIN calls : calls[i].api \in CreateOrDeleteApis

\* C23: a group Update issues updateGroup only when the planned name differs
\* from the tracked name; a folder Update issues updateFolder only when name
\* or parent differ and setInheritance only when the inherits flag differs;
\* no Update of any kind issues a create or a delete call, and each leaves
\* the remote with the objects it had.
C23_ConvergeAppliesOnlyChanges ==
    [][ /\ glast'.op = "GroupUpdate"
           => /\ CallsTo(glast'.calls, "updateGroup") # <<>> => glast'.plan.name # grp.name
              /\ ~Recreates(glast'.calls)
              /\ Len(rgroups') = Len(rgroups)
              /\ rgroups'[grp.id].exists = rgroups[grp.id].exists
        /\ olast'.op = "FolderUpdate"
           => /\ CallsTo(olast'.calls, "updateFolder") # <<>>
                 => \/ olast'.plan.name # tobj["folder"].name
                    \/ olast'.plan.parent_id # tobj["folder"].parent_id
              /\ CallsTo(olast'.calls, "setInheritance") # <<>>
                 => olast'.plan.inherits_permissions # tobj["folder"].inherits_permissions
        /\ olast'.op \in ObjectUpdateOps
           => /\ ~Recreates(olast'.calls)
              /\ \A k \in ObjectKinds : robj'[k].exists = robj[k].exists
        /\ last'.op \in {"FolderAccessUpdate", "OverrideUpdate"}
           => /\ ~Recreates(last'.calls)
              /\ GrantIds(grants') = GrantIds(grants)
              /\ Len(grants') = Len(grants)
      ]_vars

\* C23 witness: an Update that changed only the name of the group has issued
\* updateGroup and no other call, and the remote group bears the new name.
C23_Witness ==
    /\ glast.op = "GroupUpdate"
    /\ ~glast.err
    /\ Len(glast.calls) = 1
    /\ glast.calls[1].api = "updateGroup"
    /\ grp.present
    /\ grp.name = "n2"
    /\ rgroups[grp.id].name = "n2"

\* C24: in a group Create and in a group Update, the principals that receive
\* addMember are among the union of user_ids and the IDs resolved from
\* user_emails, and none of them receives more than one addMember call.
C24_DesiredMembershipIsUnion ==
    glast.op \in {"GroupCreate", "GroupUpdate"}
    => LET adds == Args(CallsTo(glast.calls, "addMember"))
       IN  /\ Range(adds) \subseteq Desired(glast.plan)
           /\ NoRepeats(adds)

\* C25: a folder Create with inherits_permissions not configured, or configured
\* true, issues no setInheritance and records inherits_permissions = true;
\* setInheritance is issued, on the context of the new folder, only when
\* inherits_permissions is configured false, and then false is recorded.
C25_FolderInheritanceOnCreate ==
    (olast.op = "FolderCreate" /\ olast.calls[1].ok)
    => LET configured == olast.plan.inherits_permissions
           set        == CallsTo(olast.calls, "setInheritance")
       IN  /\ configured \in {NilStr, "true"}
              => /\ set = <<>>
                 /\ ~olast.err
                 /\ tobj["folder"].inherits_permissions = "true"
           /\ configured = "false"
              => /\ Len(set) = 1
                 /\ set[1].arg = ContextID
                 /\ ~olast.err => tobj["folder"].inherits_permissions = "false"

\* C26: a role-groups Create or Update that succeeds has issued one
\* setRoleGroups call and leaves the role with exactly the planned group_ids;
\* a Delete that succeeds leaves the role without groups; the tracked id is
\* the tracked role_id.
C26_RoleGroupsFullReplacement ==
    /\ tobj["role_groups"].present => tobj["role_groups"].id = tobj["role_groups"].role_id
    /\ (olast.op \in {"RoleGroupsCreate", "RoleGroupsUpdate"} /\ ~olast.err)
       => /\ Len(olast.calls) = 1
          /\ olast.calls[1].api = "setRoleGroups"
          /\ olast.calls[1].arg = olast.plan.role_id
          /\ robj["role"].groups = Elems(olast.plan.group_ids)
          /\ tobj["role_groups"] = olast.plan
    /\ (olast.op = "RoleGroupsDelete" /\ ~olast.err)
       => /\ Len(olast.calls) = 1
          /\ olast.calls[1].api = "setRoleGroups"
          /\ robj["role"].groups = {}
          /\ ~tobj["role_groups"].present

\* C26 witness: an Update has replaced the one group of the role by another.
C26_Witness ==
    /\ olast.op = "RoleGroupsUpdate"
    /\ ~olast.err
    /\ Elems(olast.prior.group_ids) = {"g1"}
    /\ robj["role"].groups = {"g2"}

\* ==========================================================================
\* Specification of the override Create interleaved with the other clients
\* of the remote service: they act between its listGrants and its updateGrant.
\* ==========================================================================

NextInterleaved ==
    \/ \E f \in FolderIDs, g \in GroupIDs, l \in Levels, a \in BOOLEAN :
          OverrideCreateSeek(f, g, l, a)
    \/ \E a \in BOOLEAN : OverrideCreateConvert(a)
    \/ OverrideDelete
    \/ \E f \in FolderIDs, g \in GroupIDs, l \in Levels : ExternalCreateGrant(f, g, l)
    \/ \E i \in 1..MaxGrantId : ExternalDeleteGrant(i)
    \/ \E i \in 1..MaxGrantId, l \in Levels : ExternalSetLevel(i, l)

SpecInterleaved == Init /\ [][NextInterleaved]_vars

\* C27: whatever other clients do between the two remote calls of an override
\* Create, the Create issues updateGrant only on the ID of a grant that its
\* own listGrants returned for the planned principal, issues no createGrant
\* and no deleteGrant, and records tracked state exactly when that updateGrant
\* succeeded; when the grant found is gone by the time of the updateGrant, the
\* Create fails, records nothing and leaves the remote grants as they are.
C27_OverrideUnderInterleaving ==
    [][ /\ (~pend.active /\ pend'.active)
           => /\ pend'.listed = AllContentMetadataAccesses(grants, pend'.plan.folder_id)
              /\ grants' = grants
              /\ ov' = ov
        /\ last'.op = "OverrideCreate"
           => /\ \A i \in DOMAIN last'.calls :
                    last'.calls[i].api \in {"listGrants", "updateGrant"}
              /\ Len(CallsTo(last'.calls, "updateGrant")) <= 1
              /\ \A i \in DOMAIN last'.calls :
                    last'.calls[i].api = "updateGrant"
                    => /\ pend.active
                       /\ \E j \in DOMAIN pend.listed :
                             /\ pend.listed[j].id = last'.calls[i].arg
                             /\ pend.listed[j].group = last'.plan.group_id
              /\ GrantIds(grants') = GrantIds(grants)
              /\ Len(grants') = Len(grants)
              /\ ov'.present <=> \E i \in DOMAIN last'.calls :
                                    last'.calls[i].api = "updateGrant" /\ last'.calls[i].ok
              /\ ov'.present <=> ~last'.err
              /\ ov'.present
                 => ov' = Tracked(pend.found.id, last'.plan.folder_id, last'.plan.group_id,
                                  last'.plan.access_level)
              /\ (pend.active /\ ~GrantExists(grants, pend.found.id))
                 => (last'.err /\ ~ov'.present /\ grants' = grants)
      ]_vars

\* C27 witness: a Create found a grant, another client deleted it before the
\* updateGrant, and the Create failed without recording state.
C27_Witness ==
    /\ last.op = "OverrideCreate"
    /\ last.err
    /\ Len(last.calls) = 2
    /\ last.calls[2].api = "updateGrant"
    /\ last.found # NoGrant
    /\ ~GrantExists(grants, last.found.id)
    /\ ~ov.present

\* ==========================================================================
\* Specification of the grant-management object alone: no other client
\* changes the remote grants.
\* ==========================================================================

SpecManaged == Init /\ [][FolderAccessNext]_vars

\* The remote grant with the tracked ID is the one the tracked state describes.
DescribesRealGrant(gs, state) ==
    \E i \in DOMAIN gs :
        /\ gs[i].id = state.id
        /\ gs[i].cm = state.folder_id
        /\ gs[i].group = state.group_id
        /\ gs[i].level = state.access_level

\* C28: with no external changes, after every successful Create, Read or
\* Update of the grant-management object, the remote grant whose ID is tracked
\* belongs to the tracked folder_id context, is for the tracked group_id and
\* has the tracked access_level.
C28_TrackedGrantIsReal ==
    (/\ last.op \in {"FolderAccessCreate", "FolderAccessRead", "FolderAccessUpdate"}
     /\ ~last.err
     /\ fa.present)
    => DescribesRealGrant(grants, fa)

\* The remote calls of a group operation that change remote state.
MutatingGroupApis == {"createGroup", "updateGroup", "deleteGroup", "addMember", "removeMember"}

\* C29: a group Create that reports a failure either created no remote group
\* or recorded the created group in tracked state; a failure of the email
\* resolution is reported before any mutating remote call is issued.
C29_FailedCreateLeavesNoOrphan ==
    (glast.op = "GroupCreate" /\ glast.err)
    => /\ (\E i \in DOMAIN glast.calls :
              glast.calls[i].api = "createGroup" /\ glast.calls[i].ok)
          => grp.present
       /\ glast.resolved.err
          => \A i \in DOMAIN glast.calls : glast.calls[i].api \notin MutatingGroupApis

\* C30: after a successful folder Update the tracked id and content_metadata_id
\* are known values equal to those tracked before the Update, and every
\* setInheritance call of a folder Update targets the content_metadata_id
\* tracked before the Update.
C30_FolderUpdatePreservesIdentity ==
    olast.op = "FolderUpdate"
    => /\ ~olast.err
          => /\ tobj["folder"].id = olast.prior.id
             /\ tobj["folder"].id \notin {Unknown, NilStr}
             /\ tobj["folder"].content_metadata_id = olast.prior.content_metadata_id
             /\ tobj["folder"].content_metadata_id \notin {Unknown, NilStr}
       /\ \A i \in DOMAIN olast.calls :
             olast.calls[i].api = "setInheritance"
             => olast.calls[i].arg = olast.prior.content_metadata_id

====
